---------------------------- MODULE Spec2Model ----------------------------
(***************************************************************************)
(* Verification model of ska-sdp-wflow-pointing-offset.                    *)
(*                                                                         *)
(* Floating-point values are modelled as IEEE-like values: an exact        *)
(* rational n/d (d > 0, lowest terms) or one of NaN, +Inf, -Inf.           *)
(* Comparisons with NaN are false, x/0 is +-Inf or NaN, as in numpy.       *)
(***************************************************************************)
EXTENDS Integers, Naturals, Sequences, FiniteSets, TLC

VARIABLES
    beam,        \* the BeamPatternFit object (beam_fitting.py:82-92)
    fitpc,       \* "new" after __init__, "fitted" after fit returned, "raised" after fit raised
    fit_thresh,  \* thresh_width argument of the last fit call
    wa_in,       \* arguments of the weighted_average call
    wa_out,      \* outcome of the weighted_average call
    wa_pc,       \* "call" before, "returned" / "raised" after weighted_average
    cli,         \* compute_offset: arguments and local variables
    cli_pc,      \* compute_offset: position in the function
    fs,          \* file system seen by export_pointing_offset_data
    ex_in,       \* export_pointing_offset_data: arguments of the direct call
    ex_pc,       \* export_pointing_offset_data: "call", "returned", "raised"
    fn_in,       \* arguments of the call of a function of array_data_func.py,
                 \* freq_select.py or of the constructor of SolveForOffsets
    fn_out,      \* what that call returned, the calls it made, the error it raised
    fn_pc        \* "call" before, "returned" / "raised" after that call

vars == <<beam, fitpc, fit_thresh, wa_in, wa_out, wa_pc, cli, cli_pc, fs, ex_in, ex_pc,
          fn_in, fn_out, fn_pc>>

-----------------------------------------------------------------------------
(* Floating-point values *)

RECURSIVE GCD(_, _)
GCD(a, b) == IF b = 0 THEN a ELSE GCD(b, a % b)

Abs(i) == IF i < 0 THEN -i ELSE i

Sign(i) == IF i < 0 THEN -1 ELSE IF i > 0 THEN 1 ELSE 0

NaN == [k |-> "nan", n |-> 0, d |-> 1]

PInf == [k |-> "pinf", n |-> 0, d |-> 1]

NInf == [k |-> "ninf", n |-> 0, d |-> 1]

\* the rational n/d in lowest terms, d /= 0
Fin(n, d) ==
    LET s == IF d < 0 THEN -1 ELSE 1
        g == GCD(Abs(n), Abs(d))
    IN  [k |-> "fin", n |-> (s * n) \div g, d |-> (s * d) \div g]

Zero == Fin(0, 1)

One == Fin(1, 1)

IsNaN(x) == x.k = "nan"

IsFinite(x) == x.k = "fin"

\* sign of a non-NaN value
FSign(x) == IF x.k = "pinf" THEN 1 ELSE IF x.k = "ninf" THEN -1 ELSE Sign(x.n)

\* x < y, false when either is NaN
FLt(x, y) ==
    /\ ~IsNaN(x)
    /\ ~IsNaN(y)
    /\ IF IsFinite(x) /\ IsFinite(y) THEN x.n * y.d < y.n * x.d
       ELSE IF x.k = y.k THEN FALSE
       ELSE x.k = "ninf" \/ y.k = "pinf"

FGt(x, y) == FLt(y, x)

FLe(x, y) == ~IsNaN(x) /\ ~IsNaN(y) /\ ~FLt(y, x)

FNeg(x) ==
    IF IsFinite(x) THEN Fin(-x.n, x.d)
    ELSE IF x.k = "pinf" THEN NInf
    ELSE IF x.k = "ninf" THEN PInf
    ELSE NaN

FAbs(x) == IF IsNaN(x) THEN NaN ELSE IF FSign(x) < 0 THEN FNeg(x) ELSE x

FAdd(x, y) ==
    IF IsNaN(x) \/ IsNaN(y) THEN NaN
    ELSE IF IsFinite(x) /\ IsFinite(y) THEN Fin(x.n * y.d + y.n * x.d, x.d * y.d)
    ELSE IF IsFinite(x) THEN y
    ELSE IF IsFinite(y) THEN x
    ELSE IF x.k = y.k THEN x
    ELSE NaN

FSub(x, y) == FAdd(x, FNeg(y))

FMul(x, y) ==
    IF IsNaN(x) \/ IsNaN(y) THEN NaN
    ELSE IF IsFinite(x) /\ IsFinite(y) THEN Fin(x.n * y.n, x.d * y.d)
    ELSE IF FSign(x) = 0 \/ FSign(y) = 0 THEN NaN
    ELSE IF FSign(x) * FSign(y) > 0 THEN PInf
    ELSE NInf

\* numpy float division: no exception, x/0 is an infinity or NaN
FDiv(x, y) ==
    IF IsNaN(x) \/ IsNaN(y) THEN NaN
    ELSE IF IsFinite(y)
         THEN IF y.n = 0
              THEN IF FSign(x) = 0 THEN NaN
                   ELSE IF FSign(x) > 0 THEN PInf ELSE NInf
              ELSE IF IsFinite(x) THEN Fin(x.n * y.d, x.d * y.n)
              ELSE IF FSign(x) * FSign(y) > 0 THEN PInf ELSE NInf
    ELSE IF IsFinite(x) THEN Zero
    ELSE NaN

\* floor of a finite value, as an integer
FFloor(x) == x.n \div x.d

-----------------------------------------------------------------------------
(* beam_fitting.py: FWHM <-> sigma conversion *)

\* 2.0 * sqrt(2.0 * log(2.0)) = 2.3548..., as the rational 471/200
FwhmFactor == Fin(471, 200)

\* _fwhm_to_sigma: fwhm / 2.0 / sqrt(2.0 * log(2.0))
FwhmToSigma(fwhm) == FDiv(fwhm, FwhmFactor)

\* _sigma_to_fwhm: 2.0 * sqrt(2.0 * log(2.0)) * sigma
SigmaToFwhm(sigma) == FMul(FwhmFactor, sigma)

\* elementwise application to a width given as a sequence (length 1: scalar)
MapSeq(Op(_), s) == [i \in 1..Len(s) |-> Op(s[i])]

-----------------------------------------------------------------------------
(* beam_fitting.py: BeamPatternFit *)

None == [k |-> "none", n |-> 0, d |-> 1]

\* BeamPatternFit.__init__(centre, width, height); width is a sequence of
\* length 1 (a scalar, or a one-element array) or 2 (a beamwidth vector)
BeamPatternFit(centre, width, height) ==
    LET interp == [mean |-> centre, std |-> MapSeq(FwhmToSigma, width), height |-> height]
    IN  [centre |-> interp.mean,
         width |-> MapSeq(SigmaToFwhm, interp.std),
         height |-> interp.height,
         expected_width |-> width,
         is_valid |-> FALSE,
         std_centre |-> <<None, None>>,
         std_width |-> [i \in 1..Len(width) |-> None],
         std_height |-> None,
         interp_std |-> interp.std,
         interp_std_std |-> [i \in 1..Len(width) |-> None]]

\* line 117: not any(numpy.isnan(self.centre)) and self.height > 0.0
CentreHeightValid(centre, height) ==
    /\ ~(\E i \in 1..Len(centre) : IsNaN(centre[i]))
    /\ FGt(height, Zero)

\* WidthInRange with the bounds included
WidthInRangeInclusive(norm_width, thresh_width) ==
    /\ FLe(Fin(9, 10), norm_width)
    /\ FLe(norm_width, thresh_width)

\* line 126, first operand: 0.9 < norm_width < thresh_width, on one element
WidthInRange(norm_width, thresh_width) ==
    /\ FLt(Fin(9, 10), norm_width)
    /\ FLt(norm_width, thresh_width)

\* line 126, second operand: fit_snr > 0.0, on one element
SnrPositive(fit_snr) == FGt(fit_snr, Zero)

\* The chained comparison of line 126 takes the truth value of an array:
\* with more than one element Python raises ValueError
FitRaises(b) == Len(b.expected_width) > 1

\* BeamPatternFit.fit, lines 110-126; res is what GaussianFit.fit leaves in
\* self._interp (mean, std, height, std_mean, std_std, std_height)
FitBeam(b, res, thresh_width) ==
    LET width == MapSeq(SigmaToFwhm, res.std)
        valid1 == CentreHeightValid(res.mean, res.height)
        fit_snr == [i \in 1..Len(res.std) |-> FDiv(res.std[i], res.std_std[i])]
        norm_width == [i \in 1..Len(width) |-> FDiv(width[i], b.expected_width[i])]
        upd == [b EXCEPT !.centre = res.mean,
                         !.width = width,
                         !.height = res.height,
                         !.std_centre = res.std_mean,
                         !.std_width = MapSeq(SigmaToFwhm, res.std_std),
                         !.std_height = res.std_height,
                         !.interp_std = res.std,
                         !.interp_std_std = res.std_std]
    IN  IF FitRaises(b)
        THEN [upd EXCEPT !.is_valid = valid1]
        ELSE [upd EXCEPT !.is_valid =
                 valid1 /\ (WidthInRange(norm_width[1], thresh_width) /\ SnrPositive(fit_snr[1]))]

\* Expected beamwidths (FWHM, degrees) given to the constructor
ExpectedWidths == {<<Fin(2, 1)>>, <<Fin(2, 1), Fin(9, 4)>>}

\* Outcomes of the optimiser: any floating-point value may come back
CentrePairs == {<<Fin(1, 10), Fin(-1, 20)>>, <<NaN, Zero>>, <<Zero, NaN>>, <<PInf, Zero>>}

WidthRatios == {Fin(17, 20), Fin(9, 10), One, Fin(23, 20), Fin(3, 2), Fin(2, 1), NaN, PInf}

HeightVals == {One, Zero, NaN, PInf}

StdStdVals == {Fin(1, 100), NaN, PInf}

\* thresh_width: 1.5 is the default of fit, 1.15 the value of the regression test
ThreshVals == {Fin(23, 20), Fin(3, 2)}

\* Results of GaussianFit.fit for a beam of expected width w: the fitted
\* sigma is ratio * sigma_expected on each axis
FitResults(w) ==
    { [mean |-> c,
       std |-> [i \in 1..Len(w) |-> FMul(r[i], FwhmToSigma(w[i]))],
       height |-> h,
       std_mean |-> <<Fin(1, 100), Fin(1, 100)>>,
       std_std |-> [i \in 1..Len(w) |-> ss],
       std_height |-> Fin(1, 100)] :
      c \in CentrePairs,
      r \in IF Len(w) = 1 THEN {<<x>> : x \in WidthRatios}
             ELSE {<<x, y>> : x \in {One, Fin(2, 1)}, y \in {One, Fin(2, 1)}},
      h \in HeightVals,
      ss \in StdStdVals }

Idle == <<>>

InitFit ==
    /\ beam \in {BeamPatternFit(<<Zero, Zero>>, w, One) : w \in ExpectedWidths}
    /\ fitpc = "new"
    /\ fit_thresh = Fin(3, 2)
    /\ wa_in = Idle /\ wa_out = Idle /\ wa_pc = Idle
    /\ cli = Idle /\ cli_pc = Idle /\ fs = Idle /\ ex_in = Idle /\ ex_pc = Idle
    /\ fn_in = Idle /\ fn_out = Idle /\ fn_pc = Idle

\* a call of fit that returns
Fit ==
    /\ ~FitRaises(beam)
    /\ \E res \in FitResults(beam.expected_width), t \in ThreshVals :
          /\ beam' = FitBeam(beam, res, t)
          /\ fit_thresh' = t
    /\ fitpc' = "fitted"
    /\ UNCHANGED <<wa_in, wa_out, wa_pc, cli, cli_pc, fs, ex_in, ex_pc,
                 fn_in, fn_out, fn_pc>>

\* a call of fit that ends with ValueError at line 126
FitValueError ==
    /\ FitRaises(beam)
    /\ \E res \in FitResults(beam.expected_width), t \in ThreshVals :
          /\ beam' = FitBeam(beam, res, t)
          /\ fit_thresh' = t
    /\ fitpc' = "raised"
    /\ UNCHANGED <<wa_in, wa_out, wa_pc, cli, cli_pc, fs, ex_in, ex_pc,
                 fn_in, fn_out, fn_pc>>

\* a new BeamPatternFit object replaces the old one
Construct ==
    /\ fitpc # "new"
    /\ \E w \in ExpectedWidths : beam' = BeamPatternFit(<<Zero, Zero>>, w, One)
    /\ fitpc' = "new"
    /\ UNCHANGED <<fit_thresh, wa_in, wa_out, wa_pc, cli, cli_pc, fs, ex_in, ex_pc,
                 fn_in, fn_out, fn_pc>>

NextFit == Fit \/ FitValueError \/ Construct

SpecFit == InitFit /\ [][NextFit]_vars

-----------------------------------------------------------------------------
(* Angles: numpy.radians, numpy.degrees, katpoint.wrap_angle, numpy.cos *)

\* pi as the rational 22/7
Pi == Fin(22, 7)

\* numpy.radians
Radians(x) == FDiv(FMul(x, Pi), Fin(180, 1))

\* numpy.degrees
Degrees(x) == FDiv(FMul(x, Fin(180, 1)), Pi)

\* Python float modulo for a positive finite period: the result has the
\* sign of the period; NaN for a non-finite argument
FMod(x, period) ==
    IF ~IsFinite(x) THEN NaN
    ELSE FSub(x, FMul(Fin(FFloor(FDiv(x, period)), 1), period))

\* katpoint.wrap_angle(angle, period=2*pi):
\*   (angle + 0.5 * period) % period - 0.5 * period
WrapAngle(angle) ==
    LET period == FMul(Fin(2, 1), Pi)
        half == FMul(Fin(1, 2), period)
    IN  FSub(FMod(FAdd(angle, half), period), half)

\* numpy.cos of an angle in radians, tabulated at the elevations the model uses
Cos(rad) ==
    LET deg == Degrees(rad)
    IN  IF ~IsFinite(deg) THEN NaN
        ELSE IF deg = Fin(0, 1) THEN One
        ELSE IF FAbs(deg) = Fin(30, 1) THEN Fin(433, 500)
        ELSE IF FAbs(deg) = Fin(60, 1) THEN Fin(1, 2)
        ELSE IF FAbs(deg) = Fin(90, 1) THEN Zero
        ELSE NaN

-----------------------------------------------------------------------------
(* array_data_func.py: weighted_average *)

MaxAnts == 2

MaxChunks == 2

AllAntennaNames == <<"M001", "M002", "M003", "M004">>

AntennaNames == {AllAntennaNames[i] : i \in 1..MaxAnts}

\* target.azel(timestamp, antenna)[1]: elevation of the target seen from the
\* antenna, in radians
TargetElevation(name) ==
    Radians(CASE name = "M001" -> Fin(60, 1)
              [] name = "M002" -> Fin(0, 1)
              [] name = "M003" -> Fin(30, 1)
              [] OTHER -> Fin(90, 1))

\* Fitted beams as weighted_average reads them: is_valid, centre, std_centre
BeamV1 == [is_valid |-> TRUE, centre |-> <<Fin(1, 1), Fin(2, 1)>>,
           std_centre |-> <<Fin(1, 1), Fin(2, 1)>>]

BeamV2 == [is_valid |-> TRUE, centre |-> <<Fin(200, 1), Fin(-2, 1)>>,
           std_centre |-> <<Fin(2, 1), Fin(1, 1)>>]

BeamInvalid == [is_valid |-> FALSE, centre |-> <<Fin(50, 1), Fin(-70, 1)>>,
                std_centre |-> <<Fin(1, 1), Fin(1, 1)>>]

IsNone(x) == x = None

\* all sequences over S of length at most n
RECURSIVE SeqsUpTo(_, _)
SeqsUpTo(S, n) ==
    IF n = 0 THEN {<<>>}
    ELSE LET shorter == SeqsUpTo(S, n - 1)
         IN  shorter \cup {Append(q, x) : q \in {r \in shorter : Len(r) = n - 1}, x \in S}

\* numpy.sum of a sequence of floats
RECURSIVE FSum(_)
FSum(q) == IF q = <<>> THEN Zero ELSE FAdd(q[1], FSum(Tail(q)))

\* ValidBeams keeping every beam that is not None, valid or not
RECURSIVE NotNoneBeams(_)
NotNoneBeams(beams_freq) ==
    IF beams_freq = <<>> THEN <<>>
    ELSE IF ~IsNone(beams_freq[1])
         THEN <<beams_freq[1]>> \o NotNoneBeams(Tail(beams_freq))
         ELSE NotNoneBeams(Tail(beams_freq))

\* line 434-436: [b for b in beams_freq if b is not None and b.is_valid]
RECURSIVE ValidBeams(_)
ValidBeams(beams_freq) ==
    IF beams_freq = <<>> THEN <<>>
    ELSE IF ~IsNone(beams_freq[1]) /\ beams_freq[1].is_valid
         THEN <<beams_freq[1]>> \o ValidBeams(Tail(beams_freq))
         ELSE ValidBeams(Tail(beams_freq))

\* InverseVariance with the standard error not squared
InverseStd(std) == FDiv(One, std)

\* line 444: 1.0 / offsets_freq_std**2, on one element
InverseVariance(std) == FDiv(One, FMul(std, std))

\* the outcome of numpy.average when the weights sum to zero
ZeroDivisionError == [k |-> "ZeroDivisionError", n |-> 0, d |-> 1]

\* line 447-450: numpy.average(offsets_freq, axis=0, weights=weights_freq),
\* component k
AverageComponent(beams, k) ==
    LET wgt == [c \in 1..Len(beams) |-> InverseVariance(beams[c].std_centre[k])]
        scl == FSum(wgt)
        num == FSum([c \in 1..Len(beams) |-> FMul(beams[c].centre[k], wgt[c])])
    IN  IF scl = Zero THEN ZeroDivisionError ELSE FDiv(num, scl)

\* An entry of fitted_beams: a list of beams, a single beam, or None
ListEntry(q) == [t |-> "list", v |-> q]

BeamEntry(b) == [t |-> "beam", v |-> <<b>>]

NoneEntry == [t |-> "none", v |-> <<>>]

\* line 432: fitted_beams.get(antenna.name, [])
GetBeams(fitted_beams, name) ==
    IF name \in DOMAIN fitted_beams THEN fitted_beams[name] ELSE ListEntry(<<>>)

NaNRow(name) == [name |-> name, az |-> NaN, el |-> NaN, xel |-> NaN]

\* lines 460-474: the offsets of one antenna from its pointing_offset (degrees)
OffsetRow(name, pointing_offset) ==
    LET po == [k \in 1..2 |-> WrapAngle(Radians(pointing_offset[k]))]
        target_el == Degrees(WrapAngle(TargetElevation(name)))
        x_el_offset == FMul(po[1], Cos(Radians(target_el)))
    IN  [name |-> name,
         az |-> FMul(Degrees(po[1]), Fin(60, 1)),
         el |-> FMul(Degrees(po[2]), Fin(60, 1)),
         xel |-> FMul(Degrees(x_el_offset), Fin(60, 1))]

\* lines 431-474: one iteration of the loop over the antennas.
\* error: the exception that ends the call, or "none"
\* warned: whether the warning of lines 438/455 is logged
\* centre: pointing_offset before wrapping (None when the antenna is skipped)
WAIteration(name, fitted_beams, num_chunks) ==
    LET beams_freq == GetBeams(fitted_beams, name)
        skip == [error |-> "none", warned |-> TRUE, centre |-> <<None, None>>,
                 row |-> NaNRow(name)]
        fail(e) == [error |-> e, warned |-> FALSE, centre |-> <<None, None>>,
                    row |-> NaNRow(name)]
        done(c) == [error |-> "none", warned |-> FALSE, centre |-> c,
                    row |-> OffsetRow(name, c)]
    IN  IF num_chunks > 1
        THEN IF beams_freq.t # "list"
             THEN fail("TypeError")      \* iterating None or a single beam
             ELSE LET valid == ValidBeams(beams_freq.v)
                      avg == [k \in 1..2 |-> AverageComponent(valid, k)]
                  IN  IF valid = <<>> THEN skip
                      ELSE IF \E k \in 1..2 : avg[k] = ZeroDivisionError
                           THEN fail("ZeroDivisionError")
                           ELSE done(avg)
        ELSE IF beams_freq.t = "none" THEN skip
             ELSE IF beams_freq.t = "list"
                  THEN fail("AttributeError")  \* a list has no is_valid
                  ELSE IF beams_freq.v[1].is_valid
                       THEN done(beams_freq.v[1].centre)
                       ELSE skip

\* one more pass of the for loop of line 430, unless an exception ended it
WAExtend(before, n, ants, fitted_beams, num_chunks) ==
    IF Len(before) < n - 1 \/ (n > 1 /\ before[n - 1].error # "none")
    THEN before
    ELSE Append(before, WAIteration(ants[n], fitted_beams, num_chunks))

\* the iterations of ants[1..n], stopping at the first exception
RECURSIVE WALoop(_, _, _, _)
WALoop(ants, fitted_beams, num_chunks, n) ==
    IF n = 0 THEN <<>>
    ELSE WAExtend(WALoop(ants, fitted_beams, num_chunks, n - 1), n, ants,
                  fitted_beams, num_chunks)

\* ColumnStack with the name and the offsets appended only after the validity
\* test, so that a skipped antenna leaves no row
RECURSIVE ColumnStackFitted(_)
ColumnStackFitted(its) ==
    IF its = <<>> THEN <<>>
    ELSE IF its[1].warned THEN ColumnStackFitted(Tail(its))
    ELSE <<its[1].row>> \o ColumnStackFitted(Tail(its))

\* lines 476-478: numpy.column_stack((antenna_names, az, el, cross_el))
ColumnStack(its) == [i \in 1..Len(its) |-> its[i].row]

\* the outcome of the call from the iterations that ran
WAOutcome(its) ==
    IF its # <<>> /\ its[Len(its)].error # "none"
    THEN [status |-> "raised", error |-> its[Len(its)].error, table |-> <<>>,
          centres |-> <<>>,
          warned |-> [i \in 1..Len(its) |-> its[i].warned]]
    ELSE [status |-> "returned", error |-> "none", table |-> ColumnStack(its),
          centres |-> [i \in 1..Len(its) |-> its[i].centre],
          warned |-> [i \in 1..Len(its) |-> its[i].warned]]

\* weighted_average(ants, fitted_beams, target, offset_timestamps, num_chunks)
WeightedAverage(ants, fitted_beams, num_chunks) ==
    WAOutcome(WALoop(ants, fitted_beams, num_chunks, Len(ants)))

\* Lists of antennas: distinct names, in ascending or descending order
AntLists ==
    UNION { { [i \in 1..n |-> AllAntennaNames[i]],
              [i \in 1..n |-> AllAntennaNames[n + 1 - i]] } : n \in 1..MaxAnts }

\* Entries of fitted_beams when fitting per frequency chunk: a list of up to
\* MaxChunks beams (None among them), or None
ChunkEntries ==
    {ListEntry(q) : q \in SeqsUpTo({BeamV1, BeamV2, BeamInvalid, None}, MaxChunks)}
        \cup {NoneEntry}

\* the entries with at most one beam
ShortEntries == {e \in ChunkEntries : Len(e.v) <= 1}

\* Entries of fitted_beams when there is one fit per antenna
SingleEntries == {BeamEntry(BeamV1), BeamEntry(BeamV2), BeamEntry(BeamInvalid), NoneEntry}

\* dictionaries with keys among the antenna names; every key order is the
\* same dictionary.  At most one antenna has a list of several beams.
ChunkDicts ==
    UNION { { [x \in keys |-> IF x = k THEN r ELSE sh[x]] :
                k \in keys, r \in ChunkEntries, sh \in [keys -> ShortEntries] }
            \cup [keys -> ShortEntries] : keys \in SUBSET AntennaNames }

SingleDicts == UNION { [keys -> SingleEntries] : keys \in SUBSET AntennaNames }

WAInputs ==
    { [ants |-> a, fitted_beams |-> fb, num_chunks |-> MaxChunks] :
        a \in AntLists, fb \in ChunkDicts }
    \cup
    { [ants |-> a, fitted_beams |-> fb, num_chunks |-> 1] :
        a \in AntLists, fb \in SingleDicts }

InitAvg ==
    /\ wa_in \in WAInputs
    /\ wa_out = Idle
    /\ wa_pc = "call"
    /\ beam = Idle /\ fitpc = Idle /\ fit_thresh = Idle
    /\ cli = Idle /\ cli_pc = Idle /\ fs = Idle /\ ex_in = Idle /\ ex_pc = Idle
    /\ fn_in = Idle /\ fn_out = Idle /\ fn_pc = Idle

\* the call returns the table
WAReturn ==
    /\ wa_pc = "call"
    /\ LET out == WeightedAverage(wa_in.ants, wa_in.fitted_beams, wa_in.num_chunks)
       IN  /\ out.status = "returned"
           /\ wa_out' = out
    /\ wa_pc' = "returned"
    /\ UNCHANGED <<wa_in, beam, fitpc, fit_thresh, cli, cli_pc, fs, ex_in, ex_pc,
                 fn_in, fn_out, fn_pc>>

\* the call ends with an exception
WARaise ==
    /\ wa_pc = "call"
    /\ LET out == WeightedAverage(wa_in.ants, wa_in.fitted_beams, wa_in.num_chunks)
       IN  /\ out.status = "raised"
           /\ wa_out' = out
    /\ wa_pc' = "raised"
    /\ UNCHANGED <<wa_in, beam, fitpc, fit_thresh, cli, cli_pc, fs, ex_in, ex_pc,
                 fn_in, fn_out, fn_pc>>

NextAvg == WAReturn \/ WARaise

SpecAvg == InitAvg /\ [][NextAvg]_vars

-----------------------------------------------------------------------------
(* Validity of a fitted beam (claims C3, C4) *)

\* fitted width / expected width on axis i
WidthRatio(b, i) == FDiv(b.width[i], b.expected_width[i])

\* The validity predicate as the specification states it, clause by clause
AllParametersFinite(b) ==
    /\ \A i \in 1..Len(b.centre) : IsFinite(b.centre[i])
    /\ \A i \in 1..Len(b.width) : IsFinite(b.width[i])
    /\ IsFinite(b.height)

HeightPositive(b) == FGt(b.height, Zero)

WidthRatiosInOpenInterval(b, t) ==
    \A i \in 1..Len(b.width) :
        FLt(Fin(9, 10), WidthRatio(b, i)) /\ FLt(WidthRatio(b, i), t)

WidthSnrPositive(b) ==
    \A i \in 1..Len(b.interp_std) : FGt(FDiv(b.interp_std[i], b.interp_std_std[i]), Zero)

ValidityPredicate(b, t) ==
    /\ AllParametersFinite(b)
    /\ HeightPositive(b)
    /\ WidthRatiosInOpenInterval(b, t)
    /\ WidthSnrPositive(b)

\* C3: after a call of fit, is_valid = true implies every clause of the
\* validity predicate: all fitted parameters finite, height > 0, width
\* ratio strictly between 0.9 and thresh_width on each axis, width SNR > 0.
C3_ValidImpliesPredicate ==
    (fitpc = "fitted" /\ beam.is_valid) => ValidityPredicate(beam, fit_thresh)

-----------------------------------------------------------------------------
(* array_data_func.py and freq_select.py: apply_rfi_mask *)

MaxChan == 5

FnIdle == beam = Idle /\ fitpc = Idle /\ fit_thresh = Idle
          /\ wa_in = Idle /\ wa_out = Idle /\ wa_pc = Idle
          /\ cli = Idle /\ cli_pc = Idle /\ fs = Idle /\ ex_in = Idle /\ ex_pc = Idle

FnUnchanged == <<beam, fitpc, fit_thresh, wa_in, wa_out, wa_pc, cli, cli_pc, fs, ex_in, ex_pc>>

\* the frequency of channel k (counted from 0), as in tests/test_array_data_func.py
ChannelFreq(k) == 100 + 50 * k

Freqs(n) == [k \in 1..n |-> ChannelFreq(k - 1)]

\* numpy.arange(n)
Arange(n) == [k \in 1..n |-> k - 1]

\* arr[b] for a one-dimensional boolean array b of the length of arr
BoolIndex(arr, b) ==
    [j \in 1..Len(SelectSeq([k \in 1..Len(arr) |-> k], LAMBDA k : b[k])) |->
        arr[SelectSeq([k \in 1..Len(arr) |-> k], LAMBDA k : b[k])[j]]]

\* numpy.loadtxt(rfi_filename): the file is missing, or holds one number per
\* line; a file of one line gives a zero-dimensional array
LoadTxt(file) ==
    IF ~file.exists THEN [error |-> "FileNotFoundError", ndim |-> 0, data |-> <<>>]
    ELSE IF Len(file.lines) = 1 THEN [error |-> "none", ndim |-> 0, data |-> file.lines]
    ELSE [error |-> "none", ndim |-> 1, data |-> file.lines]

\* rfi_mask == 0
IsZero(data) == [k \in 1..Len(data) |-> data[k] = 0]

FnResult(status, error, logged, ndim, value) ==
    [status |-> status, error |-> error, logged |-> logged, ndim |-> ndim, value |-> value]

\* arr[b] for a zero-dimensional boolean b: a new first axis of length 1 or 0
ScalarBoolIndex(arr, b) == IF b THEN <<arr>> ELSE <<>>

\* array_data_func.py line 26-42
ApplyRfiMask(freqs, rfi_filename) ==
    IF LoadTxt(rfi_filename).error # "none"
    THEN FnResult("returned", "none", TRUE, 1,
                  [freqs |-> freqs, channels |-> Arange(Len(freqs))])
    ELSE IF LoadTxt(rfi_filename).ndim = 0
    THEN FnResult("returned", "none", FALSE, 2,
                  [freqs |-> ScalarBoolIndex(freqs, LoadTxt(rfi_filename).data[1] = 0),
                   channels |-> ScalarBoolIndex(Arange(Len(freqs)),
                                                LoadTxt(rfi_filename).data[1] = 0)])
    ELSE IF Len(LoadTxt(rfi_filename).data) # Len(freqs)
    THEN FnResult("raised", "IndexError", FALSE, 0, <<>>)
    ELSE FnResult("returned", "none", FALSE, 1,
                  [freqs |-> BoolIndex(freqs, IsZero(LoadTxt(rfi_filename).data)),
                   channels |-> BoolIndex(Arange(Len(freqs)),
                                          IsZero(LoadTxt(rfi_filename).data))])

\* a Visibility of n channels: the arrays that have a frequency axis
Visibility(n) ==
    [frequency |-> Freqs(n),
     vis |-> [k \in 1..n |-> 1000 + k],
     weight |-> [k \in 1..n |-> 2000 + k],
     flags |-> [k \in 1..n |-> 3000 + k],
     channel_bandwidth |-> [k \in 1..n |-> 4000 + k]]

\* freq_select.py line 26-38: the mask is cut to the channels, or extended
\* with zeros
FitMaskToChannels(data, n) ==
    IF Len(data) > n THEN SubSeq(data, 1, n)
    ELSE IF Len(data) < n THEN [k \in 1..n |-> IF k <= Len(data) THEN data[k] ELSE 0]
    ELSE data

\* freq_select.py line 40-44 and 51-66
MaskedVisibility(vis, b) ==
    [frequency |-> BoolIndex(vis.frequency, b),
     vis |-> BoolIndex(vis.vis, b),
     weight |-> BoolIndex(vis.weight, b),
     flags |-> BoolIndex(vis.flags, b),
     channel_bandwidth |-> BoolIndex(vis.channel_bandwidth, b)]

\* freq_select.py line 13-66
ApplyRfiMaskVis(vis, rfi_filename) ==
    IF LoadTxt(rfi_filename).error # "none"
    THEN \* line 53: channel_bandwidth was never assigned
         FnResult("raised", "UnboundLocalError", TRUE, 0, <<>>)
    ELSE IF LoadTxt(rfi_filename).ndim = 0
    THEN \* line 33: rfi_mask.shape[0] of the shape ()
         FnResult("raised", "IndexError", FALSE, 0, <<>>)
    ELSE IF Len(FitMaskToChannels(LoadTxt(rfi_filename).data, Len(vis.frequency)))
              # Len(vis.frequency)
    THEN FnResult("raised", "IndexError", FALSE, 0, <<>>)
    ELSE FnResult("returned", "none", FALSE, 1,
                  MaskedVisibility(vis,
                      IsZero(FitMaskToChannels(LoadTxt(rfi_filename).data,
                                               Len(vis.frequency)))))

MissingFile == [exists |-> FALSE, lines |-> <<>>]

MaskFile(lines) == [exists |-> TRUE, lines |-> lines]

RfiFiles == {MissingFile} \cup {MaskFile(m) : m \in SeqsUpTo({0, 1}, MaxChan + 1) \ {<<>>}}

MaskInputs ==
    { [variant |-> "array", n |-> n, arg |-> Freqs(n), rfi_filename |-> f] :
        n \in 1..MaxChan, f \in RfiFiles }
    \cup
    { [variant |-> "vis", n |-> n, arg |-> Visibility(n), rfi_filename |-> f] :
        n \in 1..MaxChan, f \in RfiFiles }

MaskOutcome(in) ==
    IF in.variant = "array" THEN ApplyRfiMask(in.arg, in.rfi_filename)
    ELSE ApplyRfiMaskVis(in.arg, in.rfi_filename)

InitMask ==
    /\ fn_in \in MaskInputs
    /\ fn_out = Idle
    /\ fn_pc = "call"
    /\ FnIdle

MaskReturn ==
    /\ fn_pc = "call"
    /\ MaskOutcome(fn_in).status = "returned"
    /\ fn_out' = MaskOutcome(fn_in)
    /\ fn_pc' = "returned"
    /\ UNCHANGED <<fn_in, FnUnchanged>>

MaskRaise ==
    /\ fn_pc = "call"
    /\ MaskOutcome(fn_in).status = "raised"
    /\ fn_out' = MaskOutcome(fn_in)
    /\ fn_pc' = "raised"
    /\ UNCHANGED <<fn_in, FnUnchanged>>

NextMask == MaskReturn \/ MaskRaise

SpecMask == InitMask /\ [][NextMask]_vars

-----------------------------------------------------------------------------
(* array_data_func.py: select_channels *)

\* a command-line value: the text of a number, or a text float() rejects
NumberText(n) == [numeric |-> TRUE, n |-> n]

OtherText == [numeric |-> FALSE, n |-> 0]

\* select_mask with the bounds included
SelectMaskInclusive(freqs, start_freq, end_freq) ==
    [k \in 1..Len(freqs) |-> freqs[k] >= start_freq.n /\ freqs[k] <= end_freq.n]

\* line 58: (freqs > float(start_freq)) & (freqs < float(end_freq))
SelectMask(freqs, start_freq, end_freq) ==
    [k \in 1..Len(freqs) |-> freqs[k] > start_freq.n /\ freqs[k] < end_freq.n]

\* line 45-62
SelectChannels(freqs, channels, start_freq, end_freq) ==
    IF ~start_freq.numeric \/ ~end_freq.numeric
    THEN FnResult("raised", "ValueError", FALSE, 0, <<>>)
    ELSE FnResult("returned", "none", FALSE, 1,
                  [freqs |-> BoolIndex(freqs, SelectMask(freqs, start_freq, end_freq)),
                   channels |-> BoolIndex(channels, SelectMask(freqs, start_freq, end_freq))])

\* the channel lists a mask can leave of MaxChan channels
ChannelLists ==
    { BoolIndex(Arange(MaxChan), b) : b \in [1..MaxChan -> BOOLEAN] }

\* bounds on, between and outside the channel frequencies
FreqBounds ==
    {NumberText(75), OtherText}
    \cup {NumberText(ChannelFreq(k)) : k \in 0..(MaxChan - 1)}
    \cup {NumberText(ChannelFreq(k) + 25) : k \in 0..(MaxChan - 1)}

InitSelect ==
    /\ fn_in \in { [freqs |-> [j \in 1..Len(c) |-> ChannelFreq(c[j])], channels |-> c,
                    start_freq |-> lo, end_freq |-> hi] :
                     c \in ChannelLists, lo \in FreqBounds, hi \in FreqBounds }
    /\ fn_out = Idle
    /\ fn_pc = "call"
    /\ FnIdle

SelectReturn ==
    /\ fn_pc = "call"
    /\ SelectChannels(fn_in.freqs, fn_in.channels, fn_in.start_freq, fn_in.end_freq).status
          = "returned"
    /\ fn_out' = SelectChannels(fn_in.freqs, fn_in.channels, fn_in.start_freq, fn_in.end_freq)
    /\ fn_pc' = "returned"
    /\ UNCHANGED <<fn_in, FnUnchanged>>

SelectRaise ==
    /\ fn_pc = "call"
    /\ SelectChannels(fn_in.freqs, fn_in.channels, fn_in.start_freq, fn_in.end_freq).status
          = "raised"
    /\ fn_out' = SelectChannels(fn_in.freqs, fn_in.channels, fn_in.start_freq, fn_in.end_freq)
    /\ fn_pc' = "raised"
    /\ UNCHANGED <<fn_in, FnUnchanged>>

NextSelect == SelectReturn \/ SelectRaise

SpecSelect == InitSelect /\ [][NextSelect]_vars

-----------------------------------------------------------------------------
(* array_data_func.py: interp_timestamps *)

MaxTimes == 3

\* the (az, el) sample of antenna a in row t of origin_data
Sample(t, a) == <<1000 * t + 10 * a, 1000 * t + 10 * a + 1>>

OriginData(ntimes, nants) == [t \in 1..ntimes |-> [a \in 1..nants |-> Sample(t, a)]]

\* line 84: numpy.argsort of distinct times
ArgSort(times) ==
    [i \in 1..Len(times) |->
        CHOOSE k \in 1..Len(times) :
            Cardinality({j \in 1..Len(times) : times[j] < times[k]}) = i - 1]

\* line 85-86: origin_data[sort_index]
Take(arr, index) == [i \in 1..Len(index) |-> arr[index[i]]]

\* line 92: numpy.array([origin_times, new_times]) needs two rows of one length
TimesArrayRaises(origin_times, new_times) == Len(origin_times) # Len(new_times)

\* line 97-101: the values attribute of NearestNDInterpolator(x, y) is y, the
\* samples it was built from
InterpolatorValues(y) == y

\* line 65-103
InterpTimestamps(origin_data, origin_times, new_times) ==
    IF TimesArrayRaises(origin_times, new_times)
    THEN FnResult("raised", "ValueError", FALSE, 0, <<>>)
    ELSE FnResult("returned", "none", FALSE, 3,
                  [t \in 1..Len(new_times) |->
                      [a \in 1..Len(origin_data[1]) |->
                          <<InterpolatorValues(
                                [k \in 1..Len(origin_times) |->
                                    Take(origin_data, ArgSort(origin_times))[k][a][1]])[t],
                            InterpolatorValues(
                                [k \in 1..Len(origin_times) |->
                                    Take(origin_data, ArgSort(origin_times))[k][a][2]])[t]>>]])

\* the sequences of n distinct elements of S
RECURSIVE DistinctSeqs(_, _)
DistinctSeqs(S, n) ==
    IF n = 0 THEN {<<>>}
    ELSE UNION { {Append(q, x) : x \in S \ {q[k] : k \in 1..Len(q)}} :
                 q \in DistinctSeqs(S, n - 1) }

\* the original timestamps: distinct even times, in any order
OriginTimes ==
    UNION { DistinctSeqs({2 * k : k \in 0..(MaxTimes - 1)}, n) : n \in 1..MaxTimes }

\* the timestamps of a Visibility: ascending, up to MaxTimes of them, on and
\* between the original ones
NewTimes ==
    { BoolIndex(Arange(2 * MaxTimes - 1), b) : b \in [1..(2 * MaxTimes - 1) -> BOOLEAN] }
    \cap UNION { [1..n -> 0..(2 * MaxTimes - 2)] : n \in 1..MaxTimes }

InitInterp ==
    /\ fn_in \in { [origin_data |-> OriginData(Len(ot), a), origin_times |-> ot,
                    new_times |-> nt] :
                     ot \in OriginTimes, nt \in NewTimes, a \in 1..MaxAnts }
    /\ fn_out = Idle
    /\ fn_pc = "call"
    /\ FnIdle

InterpReturn ==
    /\ fn_pc = "call"
    /\ InterpTimestamps(fn_in.origin_data, fn_in.origin_times, fn_in.new_times).status
          = "returned"
    /\ fn_out' = InterpTimestamps(fn_in.origin_data, fn_in.origin_times, fn_in.new_times)
    /\ fn_pc' = "returned"
    /\ UNCHANGED <<fn_in, FnUnchanged>>

InterpRaise ==
    /\ fn_pc = "call"
    /\ InterpTimestamps(fn_in.origin_data, fn_in.origin_times, fn_in.new_times).status
          = "raised"
    /\ fn_out' = InterpTimestamps(fn_in.origin_data, fn_in.origin_times, fn_in.new_times)
    /\ fn_pc' = "raised"
    /\ UNCHANGED <<fn_in, FnUnchanged>>

NextInterp == InterpReturn \/ InterpRaise

SpecInterp == InitInterp /\ [][NextInterp]_vars

-----------------------------------------------------------------------------
(* array_data_func.py: _compute_gains and ExtractPerScan.from_gains *)

MaxScans == 3

\* line 118: numpy.arange(nchan).reshape(num_chunks, -1) raises ValueError
\* unless num_chunks divides nchan
ReshapeRaises(nchan, num_chunks) == nchan % num_chunks # 0

\* line 118: the rows of the reshaped channel numbers
ReshapeRows(nchan, num_chunks) ==
    [c \in 1..num_chunks |->
        [j \in 1..(nchan \div num_chunks) |-> (c - 1) * (nchan \div num_chunks) + j - 1]]

\* line 141
ChunkStart(chan) == chan[1]

\* the end of a chunk taken without the "+ 1"
ChunkEndInclusive(chan) == chan[Len(chan)]

\* line 142
ChunkEnd(chan) == chan[Len(chan)] + 1

\* line 143-153: the channels start:end of the Visibility
ChannelSlice(start, end) == {k \in 0..(MaxChan + 1) : start <= k /\ k < end}

\* solve_gaintable on a Visibility of these channels: one gain table
SolveGaintable(channels) == [solved_on |-> channels]

\* line 106-189: the gain tables returned, in the order of the solver calls
ComputeGains(nchan, num_chunks) ==
    IF num_chunks > 1
    THEN IF ReshapeRaises(nchan, num_chunks)
         THEN [warned |-> TRUE, gt_list |-> <<SolveGaintable(ChannelSlice(0, nchan))>>]
         ELSE [warned |-> FALSE,
               gt_list |-> [c \in 1..num_chunks |->
                   SolveGaintable(ChannelSlice(
                       ChunkStart(ReshapeRows(nchan, num_chunks)[c]),
                       ChunkEnd(ReshapeRows(nchan, num_chunks)[c])))]]
    ELSE [warned |-> FALSE, gt_list |-> <<SolveGaintable(ChannelSlice(0, nchan))>>]

\* line 342-345: gt_list[chunk] for chunk in range(num_chunks)
ChunkIndexRaises(gt_list, num_chunks) == Len(gt_list) < num_chunks

\* line 316-404: the gain tables used for every scan
FromGains(nchan, nscans, num_chunks) ==
    IF num_chunks > 1
    THEN IF nscans > 0 /\ ChunkIndexRaises(ComputeGains(nchan, num_chunks).gt_list, num_chunks)
         THEN FnResult("raised", "IndexError", ComputeGains(nchan, num_chunks).warned, 0, <<>>)
         ELSE FnResult("returned", "none", ComputeGains(nchan, num_chunks).warned, 3,
                       [scan \in 1..nscans |->
                           [chunk \in 1..num_chunks |->
                               ComputeGains(nchan, num_chunks).gt_list[chunk]]])
    ELSE FnResult("returned", "none", FALSE, 2,
                  [scan \in 1..nscans |-> <<ComputeGains(nchan, 1).gt_list[1]>>])

\* line 349-364 and 386-402: weights_per_scan[:, chunk, scan] is reduced from
\* the weight of this gain table of the scan's gt_list
FromGainsWeights(nchan, nscans, num_chunks) ==
    IF num_chunks > 1
    THEN IF nscans > 0 /\ ChunkIndexRaises(ComputeGains(nchan, num_chunks).gt_list, num_chunks)
         THEN <<>>
         ELSE [scan \in 1..nscans |->
                  [chunk \in 1..num_chunks |->
                      [scan |-> scan, table |-> ComputeGains(nchan, num_chunks).gt_list[1]]]]
    ELSE [scan \in 1..nscans |->
             <<[scan |-> scan, table |-> ComputeGains(nchan, 1).gt_list[1]]>>]

GainsOutcome(in) ==
    IF in.op = "_compute_gains"
    THEN FnResult("returned", "none", ComputeGains(in.nchan, in.num_chunks).warned, 1,
                  ComputeGains(in.nchan, in.num_chunks).gt_list)
    ELSE FromGains(in.nchan, in.nscans, in.num_chunks)
             @@ [weights |-> FromGainsWeights(in.nchan, in.nscans, in.num_chunks)]

InitGains ==
    /\ fn_in \in { [op |-> "_compute_gains", nchan |-> n, nscans |-> 1, num_chunks |-> c] :
                     n \in 1..MaxChan, c \in 0..(MaxChunks + 2) }
                 \cup
                 { [op |-> "from_gains", nchan |-> n, nscans |-> sc, num_chunks |-> c] :
                     n \in 1..MaxChan, sc \in 1..MaxScans, c \in 0..(MaxChunks + 2) }
    /\ fn_out = Idle
    /\ fn_pc = "call"
    /\ FnIdle

GainsReturn ==
    /\ fn_pc = "call"
    /\ GainsOutcome(fn_in).status = "returned"
    /\ fn_out' = GainsOutcome(fn_in)
    /\ fn_pc' = "returned"
    /\ UNCHANGED <<fn_in, FnUnchanged>>

GainsRaise ==
    /\ fn_pc = "call"
    /\ GainsOutcome(fn_in).status = "raised"
    /\ fn_out' = GainsOutcome(fn_in)
    /\ fn_pc' = "raised"
    /\ UNCHANGED <<fn_in, FnUnchanged>>

NextGains == GainsReturn \/ GainsRaise

SpecGains == InitGains /\ [][NextGains]_vars

-----------------------------------------------------------------------------
(* array_data_func.py: _time_avg_amp *)

\* data[:, a]: the samples of antenna a over time
Column(data, a) == [t \in 1..Len(data) |-> data[t][a]]

\* the upper of the two middle samples instead of their mean
UpperMedian(col) == SortSeq(col, LAMBDA x, y : FLt(x, y))[(Len(col) \div 2) + 1]

\* line 209: numpy.median along the time axis
Median(col) ==
    IF Len(col) % 2 = 1
    THEN SortSeq(col, LAMBDA x, y : FLt(x, y))[(Len(col) + 1) \div 2]
    ELSE FDiv(FAdd(SortSeq(col, LAMBDA x, y : FLt(x, y))[Len(col) \div 2],
                   SortSeq(col, LAMBDA x, y : FLt(x, y))[(Len(col) \div 2) + 1]),
              Fin(2, 1))

\* line 212: data.mean(axis=0)
Mean(col) == FDiv(FSum(col), Fin(Len(col), 1))

\* line 192-220: one value per antenna, and whether the warning was logged
TimeAvgAmp(data, time_avg) ==
    [a \in 1..Len(data[1]) |->
        IF time_avg = "None" THEN data[1][a]
        ELSE IF time_avg = "median" THEN Median(Column(data, a))
        ELSE IF time_avg = "mean" THEN Mean(Column(data, a))
        ELSE data[1][a]]

TimeAvgWarns(time_avg) == time_avg \notin {"None", "median", "mean"}

\* line 303-306: the amplitudes and the weights of a scan are reduced with
\* the same time_avg
ScanTimeAvg(amp, weights, time_avg) ==
    FnResult("returned", "none", TimeAvgWarns(time_avg), 1,
             [amp |-> TimeAvgAmp(amp, time_avg), weights |-> TimeAvgAmp(weights, time_avg)])

AmplitudeValues == {Fin(1, 1), Fin(2, 1), Fin(4, 1)}

\* amplitudes of one or two antennas over up to MaxTimes timestamps
AmplitudeArrays ==
    UNION { [1..t -> [1..a -> AmplitudeValues]] : t \in 1..MaxTimes, a \in 1..2 }

\* the weights of the scan: here the amplitudes in reverse order of time
WeightsOf(amp) == [t \in 1..Len(amp) |-> amp[Len(amp) + 1 - t]]

TimeAvgOptions == {"None", "median", "mean", "max"}

InitTimeAvg ==
    /\ fn_in \in { [amp |-> d, weights |-> WeightsOf(d), time_avg |-> m] :
                     d \in AmplitudeArrays, m \in TimeAvgOptions }
    /\ fn_out = Idle
    /\ fn_pc = "call"
    /\ FnIdle

TimeAvgReturn ==
    /\ fn_pc = "call"
    /\ fn_out' = ScanTimeAvg(fn_in.amp, fn_in.weights, fn_in.time_avg)
    /\ fn_pc' = "returned"
    /\ UNCHANGED <<fn_in, FnUnchanged>>

NextTimeAvg == TimeAvgReturn

SpecTimeAvg == InitTimeAvg /\ [][NextTimeAvg]_vars

-----------------------------------------------------------------------------
(* beam_fitting.py: SolveForOffsets.__init__ *)

\* katpoint.lightspeed in m/s
Lightspeed == Fin(299792458, 1)

\* numpy.sqrt(2) = 1.41..., as the rational 141/100
Sqrt2 == Fin(141, 100)

\* line 167: lightspeed / self.y_param.frequency.data
Wavelength(frequency) == [c \in 1..Len(frequency) |-> FDiv(Lightspeed, frequency[c])]

\* line 168: not numpy.all(numpy.isfinite(self.wavelength))
WavelengthNotFinite(wavelength) == \E c \in 1..Len(wavelength) : ~IsFinite(wavelength[c])

\* line 178-183: the expected width of one antenna in one direction, per frequency
ExpectedWidth(factor, wavelength, diameter) ==
    [c \in 1..Len(wavelength) |->
        FMul(Sqrt2, Degrees(FDiv(FMul(factor, wavelength[c]), diameter)))]

\* line 152-200: the object after construction, or the error raised
SolveForOffsets(frequency, beamwidth_factor, diameters, thresh_width) ==
    IF WavelengthNotFinite(Wavelength(frequency))
    THEN FnResult("raised", "ValueError", FALSE, 0, <<>>)
    ELSE FnResult("returned", "none", FALSE, 1,
                  [wavelength |-> Wavelength(frequency),
                   thresh_width |-> thresh_width,
                   expected_width |->
                       [a \in 1..Len(diameters) |->
                           <<ExpectedWidth(beamwidth_factor[1], Wavelength(frequency), diameters[a]),
                             ExpectedWidth(beamwidth_factor[2], Wavelength(frequency), diameters[a])>>],
                   azel_offset_pol1 |-> [a \in 1..Len(diameters) |-> <<Zero, Zero>>],
                   azel_offset_pol2 |-> [a \in 1..Len(diameters) |-> <<Zero, Zero>>]])

\* frequencies in Hz: of wavelength 1 m and 0.5 m, and the values a broken
\* frequency axis can hold
FrequencyValues ==
    {Fin(299792458, 1), Fin(599584916, 1), Zero, PInf, NInf, NaN, Fin(-299792458, 1)}

InitSolve ==
    /\ fn_in \in { [frequency |-> f, beamwidth_factor |-> bf,
                    diameters |-> [a \in 1..n |-> Fin(15, 1)], thresh_width |-> Fin(3, 2)] :
                     f \in SeqsUpTo(FrequencyValues, MaxChunks) \ {<<>>},
                     bf \in {<<Fin(122, 125), Fin(549, 500)>>, <<One, One>>},
                     n \in 1..MaxAnts }
    /\ fn_out = Idle
    /\ fn_pc = "call"
    /\ FnIdle

SolveConstruct ==
    /\ fn_pc = "call"
    /\ SolveForOffsets(fn_in.frequency, fn_in.beamwidth_factor, fn_in.diameters,
                       fn_in.thresh_width).status = "returned"
    /\ fn_out' = SolveForOffsets(fn_in.frequency, fn_in.beamwidth_factor, fn_in.diameters,
                                 fn_in.thresh_width)
    /\ fn_pc' = "returned"
    /\ UNCHANGED <<fn_in, FnUnchanged>>

SolveConstructRaise ==
    /\ fn_pc = "call"
    /\ SolveForOffsets(fn_in.frequency, fn_in.beamwidth_factor, fn_in.diameters,
                       fn_in.thresh_width).status = "raised"
    /\ fn_out' = SolveForOffsets(fn_in.frequency, fn_in.beamwidth_factor, fn_in.diameters,
                                 fn_in.thresh_width)
    /\ fn_pc' = "raised"
    /\ UNCHANGED <<fn_in, FnUnchanged>>

NextSolve == SolveConstruct \/ SolveConstructRaise

SpecSolve == InitSolve /\ [][NextSolve]_vars

-----------------------------------------------------------------------------
(* array_data_func.py: ExtractPerScan.from_vis *)

MaxVisChan == 3

MaxVisScans == 2

\* vis.frequency.data of a scan: the frequencies of the retained channels, in
\* the order of the measurement set (ascending or not)
ScanFrequencies ==
    UNION { DistinctSeqs({ChannelFreq(k) : k \in 0..(MaxVisChan - 1)}, n) : n \in 0..MaxVisChan }

\* vis_list, one Visibility per scan
VisLists == UNION { [1..n -> ScanFrequencies] : n \in 0..MaxVisScans }

\* line 309-312: vis.frequency.data[-1]
LastFrequency(frequency) == frequency[Len(frequency)]

\* line 294-314: the freqs from_vis returns; indexing an empty frequency
\* array with -1 raises IndexError
FromVis(vis_list) ==
    IF Len(vis_list) = 0
    THEN FnResult("returned", "none", FALSE, 0, 0)
    ELSE IF Len(vis_list[1]) = 0
         THEN FnResult("raised", "IndexError", FALSE, 0, 0)
         ELSE FnResult("returned", "none", FALSE, 0, LastFrequency(vis_list[1]))

InitFromVis ==
    /\ fn_in \in [vis_list : VisLists]
    /\ fn_out = Idle
    /\ fn_pc = "call"
    /\ FnIdle

FromVisReturn ==
    /\ fn_pc = "call"
    /\ FromVis(fn_in.vis_list).status = "returned"
    /\ fn_out' = FromVis(fn_in.vis_list)
    /\ fn_pc' = "returned"
    /\ UNCHANGED <<fn_in, FnUnchanged>>

FromVisRaise ==
    /\ fn_pc = "call"
    /\ FromVis(fn_in.vis_list).status = "raised"
    /\ fn_out' = FromVis(fn_in.vis_list)
    /\ fn_pc' = "raised"
    /\ UNCHANGED <<fn_in, FnUnchanged>>

NextFromVis == FromVisReturn \/ FromVisRaise

SpecFromVis == InitFromVis /\ [][NextFromVis]_vars

-----------------------------------------------------------------------------
(* beam_fitting.py: SolveForOffsets.fit_to_visibilities and fit_to_gains *)

MaxFitAnts == 3

MaxCalls == 2

\* numpy.median(self.actual_pointing_el[:, j]) in degrees, antenna j counted from 1
PointingEl(j) ==
    IF j = 1 THEN Zero ELSE IF j = 2 THEN Fin(60, 1) ELSE IF j = 3 THEN Fin(30, 1) ELSE Fin(90, 1)

\* the centre (degrees) the optimiser finds for polarisation i of antenna j
\* in the gain amplitudes and in the visibility amplitudes
FittedCentre(method, i, j) ==
    IF method = "fit_to_gains"
    THEN <<Fin(10 * i + j, 100), Fin(j, 100)>>
    ELSE <<Fin(0 - (10 * i + j), 100), Fin(0 - j, 100)>>

\* line 188-200: the tables of a new object, numpy.zeros((len(self.ants), 2))
ZeroTables(n) ==
    [azel_offset_pol1 |-> [a \in 1..n |-> <<Zero, Zero>>],
     cross_el_pol1 |-> [a \in 1..n |-> Zero],
     azel_offset_pol2 |-> [a \in 1..n |-> <<Zero, Zero>>],
     cross_el_pol2 |-> [a \in 1..n |-> Zero]]

\* the objects: the number of antennas and of baselines of y_param, and for
\* each method, polarisation and antenna whether the fitted beam is valid
OffsetInstances ==
    UNION { [nants : {n}, nbaselines : {(n * (n - 1)) \div 2, (n * (n + 1)) \div 2},
             fit_to_gains : [1..2 -> [1..n -> BOOLEAN]],
             fit_to_visibilities : [1..2 -> [1..n -> BOOLEAN]]] : n \in 2..MaxFitAnts }

\* line 279-282 and 503-508: wrap_angle(numpy.radians(fitted_beam.centre))
AzElOffset(centre) == <<WrapAngle(Radians(centre[1])), WrapAngle(Radians(centre[2]))>>

\* line 276-278, 283 and 500-502, 509: azel_offset[0] * numpy.cos(elev), where
\* elev is the median pointing elevation of the antenna of index el_index
CrossElOffset(azel_offset, el_index) == FMul(azel_offset[1], Cos(Radians(PointingEl(el_index))))

\* line 294-319 and 515-538: the rows of one polarisation are assigned
StoreRow(t, pol, row, azel_offset, cross_el) ==
    IF pol = 1
    THEN [t EXCEPT !.azel_offset_pol1[row] = azel_offset, !.cross_el_pol1[row] = cross_el]
    ELSE [t EXCEPT !.azel_offset_pol2[row] = azel_offset, !.cross_el_pol2[row] = cross_el]

\* the loop nest "for i, corr ...: for j, antenna ...:" as the list of its
\* iterations, polarisations outermost
LoopOrder(n) == [k \in 1..(2 * n) |-> <<((k - 1) \div n) + 1, ((k - 1) % n) + 1>>]

\* line 480-542: the first k iterations of fit_to_gains; the row written and
\* the elevation read are indexed by i
RECURSIVE GainsLoop(_, _, _)
GainsLoop(t, inst, k) ==
    IF k = 0 THEN t
    ELSE LET i == LoopOrder(inst.nants)[k][1]
             j == LoopOrder(inst.nants)[k][2]
             offset == AzElOffset(FittedCentre("fit_to_gains", i, j))
         IN  IF inst.fit_to_gains[i][j]
             THEN StoreRow(GainsLoop(t, inst, k - 1), i, i, offset, CrossElOffset(offset, i))
             ELSE GainsLoop(t, inst, k - 1)

\* line 248-251: vis.reshape(ntimes, int(ncorr / len(self.ants)), len(self.ants))
\* raises ValueError unless the antennas divide the baselines
VisReshapeRaises(inst) == inst.nbaselines % inst.nants # 0

\* line 244-323 and 359-434: the first k iterations of either loop nest of
\* fit_to_visibilities; the row written and the elevation read are the antenna's
RECURSIVE VisLoop(_, _, _)
VisLoop(t, inst, k) ==
    IF k = 0 THEN t
    ELSE LET i == LoopOrder(inst.nants)[k][1]
             j == LoopOrder(inst.nants)[k][2]
             offset == AzElOffset(FittedCentre("fit_to_visibilities", i, j))
         IN  IF inst.fit_to_visibilities[i][j]
             THEN StoreRow(VisLoop(t, inst, k - 1), i, j, offset, CrossElOffset(offset, j))
             ELSE VisLoop(t, inst, k - 1)

\* line 222-434: the tables after fit_to_visibilities; the reshape of the
\* first attempt fails before anything is stored, and the fallback loop runs
FitToVisibilitiesTables(t, inst) ==
    IF VisReshapeRaises(inst)
    THEN VisLoop(t, inst, 2 * inst.nants)
    ELSE VisLoop(t, inst, 2 * inst.nants)

\* line 435-451 and 544-559: numpy.column_stack of the tables, one row per antenna
StackTables(t) ==
    [a \in 1..Len(t.cross_el_pol1) |->
        [azel_offset_pol1 |-> t.azel_offset_pol1[a], cross_el_pol1 |-> t.cross_el_pol1[a],
         azel_offset_pol2 |-> t.azel_offset_pol2[a], cross_el_pol2 |-> t.cross_el_pol2[a]]]

InitOffsets ==
    /\ fn_in \in OffsetInstances
    /\ fn_out = [tables |-> ZeroTables(fn_in.nants), returned |-> <<>>, calls |-> <<>>]
    /\ fn_pc = "constructed"
    /\ FnIdle

FitToGains ==
    /\ Len(fn_out.calls) < MaxCalls
    /\ fn_out' = [tables |-> GainsLoop(fn_out.tables, fn_in, 2 * fn_in.nants),
                  returned |-> StackTables(GainsLoop(fn_out.tables, fn_in, 2 * fn_in.nants)),
                  calls |-> Append(fn_out.calls, "fit_to_gains")]
    /\ fn_pc' = "returned"
    /\ UNCHANGED <<fn_in, FnUnchanged>>

FitToVisibilities ==
    /\ Len(fn_out.calls) < MaxCalls
    /\ fn_out' = [tables |-> FitToVisibilitiesTables(fn_out.tables, fn_in),
                  returned |-> StackTables(FitToVisibilitiesTables(fn_out.tables, fn_in)),
                  calls |-> Append(fn_out.calls, "fit_to_visibilities")]
    /\ fn_pc' = "returned"
    /\ UNCHANGED <<fn_in, FnUnchanged>>

NextOffsets == FitToGains \/ FitToVisibilities

SpecOffsets == InitOffsets /\ [][NextOffsets]_vars

-----------------------------------------------------------------------------
(* workflow.py: apply_rfi_mask, select_channels and clean_vis_data *)

\* start_freq and end_freq: None, or a frequency
NoFreq == [given |-> FALSE, hz |-> 0]

GivenFreq(hz) == [given |-> TRUE, hz |-> hz]

\* workflow.py line 19-25: freqs[rfi_mask == 0], rfi_mask of the length of freqs
WorkflowApplyRfiMask(freqs, rfi_mask) == BoolIndex(freqs, IsZero(rfi_mask))

\* workflow.py line 40: (freqs > start_freq) & (freqs < end_freq)
WorkflowSelectMask(freqs, start_freq, end_freq) ==
    [k \in 1..Len(freqs) |-> freqs[k] > start_freq /\ freqs[k] < end_freq]

\* workflow.py line 28-44
WorkflowSelectChannels(freqs, start_freq, end_freq) ==
    BoolIndex(freqs, WorkflowSelectMask(freqs, start_freq, end_freq))

\* workflow.py line 79-85: the frequencies left by the optional RFI mask
FilteredFreq(in) ==
    IF in.apply_mask THEN WorkflowApplyRfiMask(in.freqs, in.rfi_mask) ELSE in.freqs

\* workflow.py line 88-89: a missing start_freq becomes filtered_freq[0]
StartFreq(in) == IF in.start_freq.given THEN in.start_freq.hz ELSE FilteredFreq(in)[1]

\* workflow.py line 90-91: a missing end_freq becomes filtered_freq[-1]
EndFreq(in) ==
    IF in.end_freq.given THEN in.end_freq.hz ELSE FilteredFreq(in)[Len(FilteredFreq(in))]

\* workflow.py line 47-131: the frequencies that enter numpy.mean(axis=1) and
\* are returned as selected_freq; indexing an empty filtered_freq raises
CleanVisData(in) ==
    IF (~in.start_freq.given \/ ~in.end_freq.given) /\ Len(FilteredFreq(in)) = 0
    THEN FnResult("raised", "IndexError", FALSE, 0, <<>>)
    ELSE FnResult("returned", "none", FALSE, 1,
                  [selected_freq |->
                       WorkflowSelectChannels(FilteredFreq(in), StartFreq(in), EndFreq(in)),
                   averaged |->
                       WorkflowSelectChannels(FilteredFreq(in), StartFreq(in), EndFreq(in))])

CleanInputs ==
    UNION { [freqs : {Freqs(n)}, apply_mask : {TRUE}, rfi_mask : [1..n -> {0, 1}],
             start_freq : {NoFreq, GivenFreq(75), GivenFreq(ChannelFreq(1))},
             end_freq : {NoFreq, GivenFreq(ChannelFreq(1) + 25), GivenFreq(ChannelFreq(MaxChan))}]
            \cup
            [freqs : {Freqs(n)}, apply_mask : {FALSE}, rfi_mask : {[k \in 1..n |-> 0]},
             start_freq : {NoFreq, GivenFreq(75), GivenFreq(ChannelFreq(1))},
             end_freq : {NoFreq, GivenFreq(ChannelFreq(1) + 25), GivenFreq(ChannelFreq(MaxChan))}]
            : n \in 1..MaxChan }

InitClean ==
    /\ fn_in \in CleanInputs
    /\ fn_out = Idle
    /\ fn_pc = "call"
    /\ FnIdle

CleanReturn ==
    /\ fn_pc = "call"
    /\ CleanVisData(fn_in).status = "returned"
    /\ fn_out' = CleanVisData(fn_in)
    /\ fn_pc' = "returned"
    /\ UNCHANGED <<fn_in, FnUnchanged>>

CleanRaise ==
    /\ fn_pc = "call"
    /\ CleanVisData(fn_in).status = "raised"
    /\ fn_out' = CleanVisData(fn_in)
    /\ fn_pc' = "raised"
    /\ UNCHANGED <<fn_in, FnUnchanged>>

NextClean == CleanReturn \/ CleanRaise

SpecClean == InitClean /\ [][NextClean]_vars

-----------------------------------------------------------------------------
(* array_data_func.py: sequences of apply_rfi_mask and select_channels calls *)

MaxSteps == 3

\* the frequency bounds of a select_channels call that are numbers
NumericBounds == {b \in FreqBounds : b.numeric}

\* the arrays before the first call: the full frequency list and numpy.arange
InitChain ==
    /\ fn_in \in [n : 1..MaxChan]
    /\ fn_out = [freqs |-> Freqs(fn_in.n), channels |-> Arange(fn_in.n), steps |-> 0]
    /\ fn_pc = "ready"
    /\ FnIdle

\* line 26-42: freqs, channels = apply_rfi_mask(freqs, rfi_filename); a
\* one-line mask leaves two-dimensional arrays, with which the sequence ends
ChainMask ==
    /\ fn_pc = "ready" /\ fn_out.steps < MaxSteps
    /\ \E f \in RfiFiles :
          /\ ApplyRfiMask(fn_out.freqs, f).status = "returned"
          /\ fn_out' = [freqs |-> ApplyRfiMask(fn_out.freqs, f).value.freqs,
                        channels |-> ApplyRfiMask(fn_out.freqs, f).value.channels,
                        steps |-> fn_out.steps + 1]
          /\ fn_pc' = IF ApplyRfiMask(fn_out.freqs, f).ndim = 1 THEN "ready" ELSE "two_dimensional"
    /\ UNCHANGED <<fn_in, FnUnchanged>>

\* line 38-39: the boolean index of a mask of another length raises IndexError
ChainMaskRaise ==
    /\ fn_pc = "ready" /\ fn_out.steps < MaxSteps
    /\ \E f \in RfiFiles : ApplyRfiMask(fn_out.freqs, f).status = "raised"
    /\ fn_pc' = "raised"
    /\ UNCHANGED <<fn_in, fn_out, FnUnchanged>>

\* line 45-62: freqs, channels = select_channels(freqs, channels, start, end)
ChainSelect ==
    /\ fn_pc = "ready" /\ fn_out.steps < MaxSteps
    /\ \E lo \in NumericBounds, hi \in NumericBounds :
          fn_out' = [freqs |-> SelectChannels(fn_out.freqs, fn_out.channels, lo, hi).value.freqs,
                     channels |->
                         SelectChannels(fn_out.freqs, fn_out.channels, lo, hi).value.channels,
                     steps |-> fn_out.steps + 1]
    /\ fn_pc' = "ready"
    /\ UNCHANGED <<fn_in, FnUnchanged>>

NextChain == ChainMask \/ ChainMaskRaise \/ ChainSelect

SpecChain == InitChain /\ [][NextChain]_vars

-----------------------------------------------------------------------------
(* weighted_average (claims C1, C2, C6, C10) *)

RowIsNaN(r) == IsNaN(r.az) /\ IsNaN(r.el) /\ IsNaN(r.xel)

\* the sequence q without its element i
RemoveAt(q, i) == [j \in 1..(Len(q) - 1) |-> IF j < i THEN q[j] ELSE q[j + 1]]

\* antenna i of the call has an entry in fitted_beams that is a non-empty list
\* of beams, none of them valid
AllSubBandsInvalid(i) ==
    /\ wa_in.ants[i] \in DOMAIN wa_in.fitted_beams
    /\ wa_in.fitted_beams[wa_in.ants[i]].t = "list"
    /\ wa_in.fitted_beams[wa_in.ants[i]].v # <<>>
    /\ \A c \in 1..Len(wa_in.fitted_beams[wa_in.ants[i]].v) :
          \/ wa_in.fitted_beams[wa_in.ants[i]].v[c] = None
          \/ ~wa_in.fitted_beams[wa_in.ants[i]].v[c].is_valid

\* no fitted beam exists for antenna i: no key, or the entry is None
NoFittedBeam(i) ==
    \/ wa_in.ants[i] \notin DOMAIN wa_in.fitted_beams
    \/ wa_in.fitted_beams[wa_in.ants[i]].t = "none"

\* the call raised in the iteration of antenna i
RaisedAt(i) == wa_pc = "raised" /\ Len(wa_out.warned) = i

\* C1: with num_chunks > 1, an antenna whose sub-band beams are all invalid
\* gets a NaN row and a warning, the loop goes on to the next antenna, and
\* the rows of the other antennas are those of the call without that antenna.
C1_AllInvalidGivesNaNRow ==
    \A i \in 1..Len(wa_in.ants) :
        (wa_pc # "call" /\ wa_in.num_chunks > 1 /\ AllSubBandsInvalid(i)) =>
            /\ ~RaisedAt(i)
            /\ wa_pc = "returned" =>
                  /\ Len(wa_out.table) = Len(wa_in.ants)
                  /\ RowIsNaN(wa_out.table[i])
                  /\ wa_out.warned[i]
                  /\ RemoveAt(wa_out.table, i) =
                        WeightedAverage(RemoveAt(wa_in.ants, i), wa_in.fitted_beams,
                                        wa_in.num_chunks).table

\* C1 witness: the first of two antennas has only invalid sub-band beams, the
\* second one has a valid fit and its row holds numbers
C1_Witness ==
    /\ wa_pc = "returned"
    /\ wa_in.num_chunks > 1
    /\ Len(wa_in.ants) = 2
    /\ AllSubBandsInvalid(1)
    /\ BeamInvalid \in {wa_in.fitted_beams[wa_in.ants[1]].v[c] :
                          c \in 1..Len(wa_in.fitted_beams[wa_in.ants[1]].v)}
    /\ RowIsNaN(wa_out.table[1])
    /\ IsFinite(wa_out.table[2].az)

\* C2: an antenna without a fitted beam (no key, or entry None) yields a NaN
\* row instead of an error, for num_chunks > 1 and for num_chunks <= 1.
C2_MissingFitGivesNaNRow ==
    \A i \in 1..Len(wa_in.ants) :
        (wa_pc # "call" /\ NoFittedBeam(i)) =>
            /\ ~RaisedAt(i)
            /\ wa_pc = "returned" => RowIsNaN(wa_out.table[i])

\* the valid beams of a list, as the specification selects them
ValidSubBands(q) == SelectSeq(q, LAMBDA b : b # None /\ b.is_valid)

\* sum over c of mu_c / std_c^2, divided by the sum over c of 1 / std_c^2
InverseVarianceMean(q, k) ==
    FDiv(FSum([c \in 1..Len(q) |->
                  FDiv(q[c].centre[k], FMul(q[c].std_centre[k], q[c].std_centre[k]))]),
         FSum([c \in 1..Len(q) |->
                  FDiv(One, FMul(q[c].std_centre[k], q[c].std_centre[k]))]))

\* the entry of antenna i
EntryOf(i) == wa_in.fitted_beams[wa_in.ants[i]]

HasValidSubBand(i) ==
    /\ wa_in.ants[i] \in DOMAIN wa_in.fitted_beams
    /\ EntryOf(i).t = "list"
    /\ ValidSubBands(EntryOf(i).v) # <<>>

\* C6: with num_chunks > 1, the aggregated centre of an antenna with a valid
\* sub-band beam is the inverse-variance weighted mean over the valid beams
\* only, lies between the least and the greatest valid per-band centre, and
\* does not change when the invalid beams are taken out of the list.
C6_InverseVarianceMeanOfValid ==
    \A i \in 1..Len(wa_in.ants) :
        (wa_pc = "returned" /\ wa_in.num_chunks > 1 /\ HasValidSubBand(i)) =>
            \A k \in 1..2 :
                /\ wa_out.centres[i][k] = InverseVarianceMean(ValidSubBands(EntryOf(i).v), k)
                /\ \E c \in 1..Len(ValidSubBands(EntryOf(i).v)) :
                      FLe(ValidSubBands(EntryOf(i).v)[c].centre[k], wa_out.centres[i][k])
                /\ \E c \in 1..Len(ValidSubBands(EntryOf(i).v)) :
                      FLe(wa_out.centres[i][k], ValidSubBands(EntryOf(i).v)[c].centre[k])
                /\ wa_out.centres[i] =
                      WeightedAverage(<<wa_in.ants[i]>>,
                          [x \in {wa_in.ants[i]} |->
                              ListEntry(ValidSubBands(EntryOf(i).v))],
                          wa_in.num_chunks).centres[1]

\* C6 witness: two valid sub-band beams with different centres and standard
\* errors; the aggregated azimuth centre lies strictly between the two
C6_Witness ==
    /\ wa_pc = "returned"
    /\ wa_in.num_chunks > 1
    /\ HasValidSubBand(1)
    /\ {BeamV1, BeamV2} \subseteq
          {EntryOf(1).v[c] : c \in 1..Len(EntryOf(1).v)}
    /\ FLt(BeamV1.centre[1], wa_out.centres[1][1])
    /\ FLt(wa_out.centres[1][1], BeamV2.centre[1])

\* C10: the returned table has one row per antenna of the input list, in the
\* order of the list, with the antenna name in the first column.
C10_OneRowPerAntennaInOrder ==
    wa_pc = "returned" =>
        /\ Len(wa_out.table) = Len(wa_in.ants)
        /\ \A i \in 1..Len(wa_in.ants) : wa_out.table[i].name = wa_in.ants[i]

\* C10 witness: two antennas listed in descending order, the first without a
\* valid fit, the second with one
C10_Witness ==
    /\ wa_pc = "returned"
    /\ wa_in.ants = <<"M002", "M001">>
    /\ RowIsNaN(wa_out.table[1])
    /\ IsFinite(wa_out.table[2].az)

-----------------------------------------------------------------------------
(* export_data.py: export_pointing_offset_data *)

\* An element of a numpy string array: an antenna name, or the text numpy
\* makes of a float when column_stack joins floats with names
NameField(name) == [kind |-> "str", text |-> name, num |-> None]

StrOfFloat(x) == [kind |-> "str", text |-> "float", num |-> x]

\* An element of a float array
FloatField(x) == [kind |-> "float", text |-> "", num |-> x]

\* numpy.column_stack((antenna_names, az, el, cross_el)): one string array
StrTable(table) ==
    [dtype |-> "str",
     rows |-> [i \in 1..Len(table) |->
                 <<NameField(table[i].name), StrOfFloat(table[i].az),
                   StrOfFloat(table[i].el), StrOfFloat(table[i].xel)>>]]

FloatTable(rows) ==
    [dtype |-> "float",
     rows |-> [i \in 1..Len(rows) |-> [j \in 1..Len(rows[i]) |-> FloatField(rows[i][j])]]]

\* "%.18e" % x: the text of a float in the default format of numpy.savetxt
Format18e(x) ==
    IF x.k = "fin" THEN [chars |-> "%.18e", digits |-> x]
    ELSE [chars |-> x.k, digits |-> Zero]

\* float(text): what numpy.loadtxt makes of a field written by Format18e
ParseFloat(t) ==
    IF t.chars = "%.18e" THEN t.digits
    ELSE IF t.chars = "nan" THEN NaN
    ELSE IF t.chars = "pinf" THEN PInf
    ELSE NInf

\* the file system: the directories that exist and the lines of each file
FileSystem(dirs, files) == [dirs |-> dirs, files |-> files]

NoFiles == [f \in {} |-> <<>>]

FileName(path, name) == <<path, name>>

\* line 25-26: os.makedirs(path, exist_ok=True)
MakeDirs(fsys, path) == [fsys EXCEPT !.dirs = @ \cup {path}]

\* numpy.savetxt opens the file for writing before it formats a row: the file
\* exists and is empty from that point on
OpenForWriting(fsys, filename) ==
    [fsys EXCEPT !.files =
        [f \in (DOMAIN @) \cup {filename} |-> IF f = filename THEN <<>> ELSE @[f]]]

\* "%.18e" applied to an element of a string array raises TypeError
RowFormatRaises(offset) == offset.dtype = "str" /\ offset.rows # <<>>

FormatRows(offset) ==
    [i \in 1..Len(offset.rows) |->
        [j \in 1..Len(offset.rows[i]) |-> Format18e(offset.rows[i][j].num)]]

WriteLines(fsys, filename, lines) ==
    [fsys EXCEPT !.files =
        [f \in (DOMAIN @) \cup {filename} |-> IF f = filename THEN lines ELSE @[f]]]

\* line 10-28: the file system after the call, and the error it raised
ExportPointingOffsetData(fsys, filename, offset) ==
    IF RowFormatRaises(offset)
    THEN [fs |-> OpenForWriting(MakeDirs(fsys, filename[1]), filename),
          error |-> "TypeError"]
    ELSE [fs |-> WriteLines(OpenForWriting(MakeDirs(fsys, filename[1]), filename),
                            filename, FormatRows(offset)),
          error |-> "none"]

\* the single-band calls of weighted_average that return
SingleBandInputs ==
    { in \in { [ants |-> a, fitted_beams |-> fb, num_chunks |-> 1] :
                 a \in AntLists, fb \in SingleDicts } :
        WeightedAverage(in.ants, in.fitted_beams, in.num_chunks).status = "returned" }

\* the tables the pipeline hands to the export
PipelineTables ==
    { StrTable(WeightedAverage(in.ants, in.fitted_beams, in.num_chunks).table) :
        in \in SingleBandInputs }

\* tests/test_export_data.py: float tables of two columns
NumericTables ==
    { FloatTable(rows) :
        rows \in SeqsUpTo({<<Fin(2979, 20), Fin(1781, 50)>>,
                           <<Fin(99999, 100), NaN>>}, MaxAnts) \ {<<>>} }

ExportDirs == {"results", "msdir"}

ExportFileSystems ==
    { FileSystem(d, NoFiles) : d \in SUBSET ExportDirs }
    \cup
    { FileSystem(ExportDirs,
                 [f \in {FileName(d, "pointing_offsets.txt")} |-> <<<<Format18e(One)>>>>]) :
        d \in ExportDirs }

InitExport ==
    /\ ex_in \in [filename : {FileName(d, "pointing_offsets.txt") : d \in ExportDirs},
                  offset : PipelineTables \cup NumericTables]
    /\ fs \in ExportFileSystems
    /\ ex_pc = "call"
    /\ beam = Idle /\ fitpc = Idle /\ fit_thresh = Idle
    /\ wa_in = Idle /\ wa_out = Idle /\ wa_pc = Idle
    /\ cli = Idle /\ cli_pc = Idle
    /\ fn_in = Idle /\ fn_out = Idle /\ fn_pc = Idle

ExportReturn ==
    /\ ex_pc = "call"
    /\ ExportPointingOffsetData(fs, ex_in.filename, ex_in.offset).error = "none"
    /\ fs' = ExportPointingOffsetData(fs, ex_in.filename, ex_in.offset).fs
    /\ ex_pc' = "returned"
    /\ UNCHANGED <<beam, fitpc, fit_thresh, wa_in, wa_out, wa_pc, cli, cli_pc, ex_in,
                 fn_in, fn_out, fn_pc>>

ExportRaise ==
    /\ ex_pc = "call"
    /\ ExportPointingOffsetData(fs, ex_in.filename, ex_in.offset).error # "none"
    /\ fs' = ExportPointingOffsetData(fs, ex_in.filename, ex_in.offset).fs
    /\ ex_pc' = "raised"
    /\ UNCHANGED <<beam, fitpc, fit_thresh, wa_in, wa_out, wa_pc, cli, cli_pc, ex_in,
                 fn_in, fn_out, fn_pc>>

NextExport == ExportReturn \/ ExportRaise

SpecExport == InitExport /\ [][NextExport]_vars

-----------------------------------------------------------------------------
(* pointing_offset_cli.py: compute_offset *)

OutputName == "pointing_offsets.txt"

\* the command-line arguments compute_offset reads; numbers_parse tells
\* whether float() accepts the texts given for --bw_factor and --thresh_width
CliArguments ==
    [msdir : {"msdir"},
     results_dir : {"None", "results"},
     save_offset : BOOLEAN,
     apply_mask : BOOLEAN,
     rfi_file : BOOLEAN,
     fit_to_vis : BOOLEAN,
     numbers_parse : BOOLEAN]

\* line 264-275: the file the run exports to
ResultsFile(args) ==
    IF args.results_dir = "None" THEN FileName(args.msdir, OutputName)
    ELSE FileName(args.results_dir, OutputName)

\* the antennas read_batch_visibilities can return
CliAntennas == {[i \in 1..n |-> AllAntennaNames[i]] : n \in 1..MaxAnts}

\* the offsets in radians that the aggregation can return for one antenna
AntennaAzEl ==
    {<<NaN, NaN>>,
     <<Radians(Fin(1, 60)), Radians(Fin(-1, 30))>>,
     <<Radians(Fin(-1, 20)), Zero>>}

\* line 232-234: numpy.degrees(wrap_angle(...)) of every element
AzElDegrees(azel) ==
    [i \in 1..Len(azel) |-> <<Degrees(WrapAngle(azel[i][1])), Degrees(WrapAngle(azel[i][2]))>>]

\* line 241-244: the target elevation of an antenna in degrees
TargetElDegrees(name) == Degrees(TargetElevation(name))

\* line 246-248: azel_offset[:, 0] * numpy.degrees(numpy.cos(numpy.radians(target_el)))
CrossEl(az, target_el) == FMul(az, Degrees(Cos(Radians(target_el))))

\* line 252-259: the rows of the table, in arcminutes
CliRows(ants, azel_offset) ==
    [i \in 1..Len(ants) |->
        [name |-> ants[i],
         az |-> FMul(azel_offset[i][1], Fin(60, 1)),
         el |-> FMul(azel_offset[i][2], Fin(60, 1)),
         xel |-> FMul(CrossEl(azel_offset[i][1], TargetElDegrees(ants[i])), Fin(60, 1))]]

InitCli ==
    /\ cli = [args |-> CHOOSE a \in CliArguments : TRUE, ants |-> <<>>,
              rows |-> <<>>, error |-> "none", printed |-> FALSE,
              command |-> "compute"]
    /\ cli_pc = "main"
    /\ fs = FileSystem({"msdir"}, NoFiles)
    /\ beam = Idle /\ fitpc = Idle /\ fit_thresh = Idle
    /\ wa_in = Idle /\ wa_out = Idle /\ wa_pc = Idle
    /\ ex_in = Idle /\ ex_pc = Idle
    /\ fn_in = Idle /\ fn_out = Idle /\ fn_pc = Idle

CliUnchanged == <<beam, fitpc, fit_thresh, wa_in, wa_out, wa_pc, ex_in, ex_pc,
                 fn_in, fn_out, fn_pc>>

\* line 76-78: main hands the parsed arguments to compute_offset
Main ==
    /\ cli_pc = "main"
    /\ \E a \in CliArguments : cli' = [cli EXCEPT !.args = a]
    /\ cli_pc' = "arguments"
    /\ UNCHANGED <<fs, CliUnchanged>>

\* line 76-82: the command is compute and --msdir is not given
MsdirRequired ==
    /\ cli_pc = "main"
    /\ \E a \in CliArguments :
          cli' = [cli EXCEPT !.args = [a EXCEPT !.msdir = "None"], !.error = "ValueError"]
    /\ cli_pc' = "failed"
    /\ UNCHANGED <<fs, CliUnchanged>>

\* the commands a user can type that are not compute
OtherCommands == {"plot", "help"}

\* line 84-89: any other command is logged as an error and main returns
UnsupportedCommand ==
    /\ cli_pc = "main"
    /\ \E a \in CliArguments, c \in OtherCommands :
          cli' = [cli EXCEPT !.args = a, !.command = c]
    /\ cli_pc' = "returned"
    /\ UNCHANGED <<fs, CliUnchanged>>

\* line 301-302: the exit status of the interpreter that ran main: 1 after an
\* exception nobody caught, 0 after main has returned
ExitStatus(pc) == IF pc = "failed" THEN 1 ELSE 0

\* line 106-132: the arguments are accepted
ArgumentsAccepted ==
    /\ cli_pc = "arguments"
    /\ cli.args.numbers_parse
    /\ ~(cli.args.apply_mask /\ ~cli.args.rfi_file)
    /\ cli_pc' = "read"
    /\ UNCHANGED <<cli, fs, CliUnchanged>>

\* line 109, 117: float() rejects the text of a number
ArgumentsNotNumbers ==
    /\ cli_pc = "arguments"
    /\ ~cli.args.numbers_parse
    /\ cli' = [cli EXCEPT !.error = "ValueError"]
    /\ cli_pc' = "failed"
    /\ UNCHANGED <<fs, CliUnchanged>>

\* line 130-132: a mask is asked for without an RFI file
RfiFileRequired ==
    /\ cli_pc = "arguments"
    /\ cli.args.numbers_parse
    /\ cli.args.apply_mask /\ ~cli.args.rfi_file
    /\ cli' = [cli EXCEPT !.error = "ValueError"]
    /\ cli_pc' = "failed"
    /\ UNCHANGED <<fs, CliUnchanged>>

\* line 134-146: read_batch_visibilities returns the antennas
ReadVisibilities ==
    /\ cli_pc = "read"
    /\ \E a \in CliAntennas : cli' = [cli EXCEPT !.ants = a]
    /\ cli_pc' = "scans"
    /\ UNCHANGED <<fs, CliUnchanged>>

\* line 147-218: the amplitudes of every scan are extracted (from the
\* visibilities, or by solving for the gains)
ExtractPerScan ==
    /\ cli_pc = "scans"
    /\ cli_pc' = "fit"
    /\ UNCHANGED <<cli, fs, CliUnchanged>>

\* line 221-229: the beams are fitted
FitBeams ==
    /\ cli_pc = "fit"
    /\ cli_pc' = "aggregate"
    /\ UNCHANGED <<cli, fs, CliUnchanged>>

\* line 232-259: the aggregation returns the offsets and the table is built
BuildTable ==
    /\ cli_pc = "aggregate"
    /\ \E azel \in [1..Len(cli.ants) -> AntennaAzEl] :
          cli' = [cli EXCEPT !.rows = CliRows(cli.ants, AzElDegrees(azel))]
    /\ cli_pc' = "save"
    /\ UNCHANGED <<fs, CliUnchanged>>

\* line 134-234: a call made at one of these steps raises
StepRaises ==
    /\ cli_pc \in {"read", "scans", "fit", "aggregate"}
    /\ cli' = [cli EXCEPT !.error = "Exception"]
    /\ cli_pc' = "failed"
    /\ UNCHANGED <<fs, CliUnchanged>>

\* line 262-280, 296-299: the table is exported; the run ends, or fails with
\* the error the export raised
SaveOffset ==
    /\ cli_pc = "save"
    /\ cli.args.save_offset
    /\ fs' = ExportPointingOffsetData(fs, ResultsFile(cli.args), StrTable(cli.rows)).fs
    /\ cli' = [cli EXCEPT !.error =
                 ExportPointingOffsetData(fs, ResultsFile(cli.args), StrTable(cli.rows)).error]
    /\ cli_pc' = IF cli'.error = "none" THEN "done" ELSE "failed"
    /\ UNCHANGED CliUnchanged

\* line 281-299: without --save_offset the rows are logged and the run ends
PrintOffsets ==
    /\ cli_pc = "save"
    /\ ~cli.args.save_offset
    /\ cli' = [cli EXCEPT !.printed = TRUE]
    /\ cli_pc' = "done"
    /\ UNCHANGED <<fs, CliUnchanged>>

NextCli ==
    \/ Main \/ MsdirRequired \/ UnsupportedCommand
    \/ ArgumentsAccepted \/ ArgumentsNotNumbers \/ RfiFileRequired
    \/ ReadVisibilities \/ ExtractPerScan \/ FitBeams \/ BuildTable \/ StepRaises
    \/ SaveOffset \/ PrintOffsets

SpecCli == InitCli /\ [][NextCli]_vars

-----------------------------------------------------------------------------
(* compute_offset and export_pointing_offset_data (claims C5, C7, C8, C9) *)

\* C5: in every row of the table compute_offset builds whose azimuth offset is
\* not NaN, the cross-elevation offset is at most the azimuth offset in
\* absolute value.
C5_CrossElAtMostAzimuth ==
    cli_pc \in {"save", "done", "failed"} =>
        \A i \in 1..Len(cli.rows) :
            ~IsNaN(cli.rows[i].az) => FLe(FAbs(cli.rows[i].xel), FAbs(cli.rows[i].az))

\* the output files of a run: under results_dir, or under msdir
OutputFiles == {FileName(d, OutputName) : d \in {"msdir", "results"}}

\* C7: a run of compute_offset that has run to completion has written the
\* table, one line per antenna, to pointing_offsets.txt under results_dir (or
\* under msdir when there is no results_dir).
C7_CompletedRunHasWrittenTable ==
    cli_pc = "done" =>
        /\ ResultsFile(cli.args) \in DOMAIN fs.files
        /\ Len(fs.files[ResultsFile(cli.args)]) = Len(cli.ants)

\* C8: no output file exists before the export step, and none exists after a
\* run that ended with a fatal error, a failing export included.
C8_FatalErrorWritesNoFile ==
    cli_pc \in {"main", "arguments", "read", "scans", "fit", "aggregate", "save", "failed"} =>
        \A f \in OutputFiles : f \notin DOMAIN fs.files

\* the fields of a line read back: the name, then three floats
ReadBack(lines) ==
    [i \in 1..Len(lines) |->
        <<lines[i][1]>> \o [j \in 1..(Len(lines[i]) - 1) |-> ParseFloat(lines[i][j + 1])]]

\* the names and the offsets of a table of the pipeline
NamesAndOffsets(offset) ==
    [i \in 1..Len(offset.rows) |->
        <<offset.rows[i][1].text>> \o
            [j \in 1..(Len(offset.rows[i]) - 1) |-> offset.rows[i][j + 1].num]]

\* C9: given a table of the pipeline (names, then three float columns), the
\* export returns, the target directory exists, the file has one line of four
\* fields per antenna, and reading it back gives the names and the offsets in
\* the same order, NaN preserved.
C9_PipelineTableRoundTrip ==
    (ex_pc # "call" /\ ex_in.offset.dtype = "str") =>
        /\ ex_pc = "returned"
        /\ ex_in.filename[1] \in fs.dirs
        /\ ex_in.filename \in DOMAIN fs.files
        /\ Len(fs.files[ex_in.filename]) = Len(ex_in.offset.rows)
        /\ \A i \in 1..Len(fs.files[ex_in.filename]) : Len(fs.files[ex_in.filename][i]) = 4
        /\ ReadBack(fs.files[ex_in.filename]) = NamesAndOffsets(ex_in.offset)

-----------------------------------------------------------------------------
(* apply_rfi_mask (claims C11, C12, C13) *)

\* value holds exactly the channels of kept (counted from 0), in increasing
\* order, each with its frequency
KeepsExactly(value, freqs, kept) ==
    /\ Len(value.freqs) = Len(value.channels)
    /\ {value.channels[j] : j \in 1..Len(value.channels)} = kept
    /\ \A j \in 1..Len(value.channels) : value.freqs[j] = freqs[value.channels[j] + 1]
    /\ \A i, j \in 1..Len(value.channels) : i < j => value.channels[i] < value.channels[j]

\* the Visibility value holds exactly the channels of kept of vis, in
\* increasing order, in every array with a frequency axis
VisKeepsExactly(value, vis, kept) ==
    /\ {value.frequency[j] : j \in 1..Len(value.frequency)} = {ChannelFreq(k) : k \in kept}
    /\ \A i, j \in 1..Len(value.frequency) : i < j => value.frequency[i] < value.frequency[j]
    /\ \A j \in 1..Len(value.frequency) :
          \E k \in 1..Len(vis.frequency) :
              /\ value.frequency[j] = vis.frequency[k]
              /\ value.vis[j] = vis.vis[k]
              /\ value.weight[j] = vis.weight[k]
              /\ value.flags[j] = vis.flags[k]
              /\ value.channel_bandwidth[j] = vis.channel_bandwidth[k]
    /\ Len(value.vis) = Len(value.frequency) /\ Len(value.weight) = Len(value.frequency)
    /\ Len(value.flags) = Len(value.frequency)
    /\ Len(value.channel_bandwidth) = Len(value.frequency)

\* the channels of 0..n-1 whose mask entry is zero; a channel beyond the end of
\* the mask counts as zero
ZeroChannels(lines, n) == {k \in 0..(n - 1) : k + 1 > Len(lines) \/ lines[k + 1] = 0}

\* C11: the array variant of apply_rfi_mask, given a readable mask of the
\* length of freqs, returns exactly the channels whose mask entry is 0, in
\* increasing order, each frequency with its channel number.
C11_MaskKeepsZeroChannels ==
    (/\ fn_pc # "call" /\ fn_in.variant = "array"
     /\ fn_in.rfi_filename.exists /\ Len(fn_in.rfi_filename.lines) = fn_in.n) =>
        /\ fn_pc = "returned"
        /\ fn_out.ndim = 1
        /\ KeepsExactly(fn_out.value, fn_in.arg, ZeroChannels(fn_in.rfi_filename.lines, fn_in.n))

\* C12: with a mask file that does not exist, apply_rfi_mask does not raise,
\* logs, and returns its input unchanged: the array variant all frequencies
\* with the channels 0..N-1, the Visibility variant the Visibility it got.
C12_MissingFileReturnsInput ==
    (fn_pc # "call" /\ ~fn_in.rfi_filename.exists) =>
        /\ fn_pc = "returned"
        /\ fn_out.logged
        /\ fn_in.variant = "array" =>
              fn_out.value = [freqs |-> fn_in.arg, channels |-> Arange(fn_in.n)]
        /\ fn_in.variant = "vis" => fn_out.value = fn_in.arg

\* C13: with a mask whose length differs from the number of channels,
\* apply_rfi_mask returns; a shorter mask counts as extended with zeros, a
\* longer one as cut to its first N entries.
C13_MaskLengthMismatch ==
    (/\ fn_pc # "call"
     /\ fn_in.rfi_filename.exists /\ Len(fn_in.rfi_filename.lines) # fn_in.n) =>
        /\ fn_pc = "returned"
        /\ fn_out.ndim = 1
        /\ fn_in.variant = "array" =>
              KeepsExactly(fn_out.value, fn_in.arg,
                           ZeroChannels(fn_in.rfi_filename.lines, fn_in.n))
        /\ fn_in.variant = "vis" =>
              VisKeepsExactly(fn_out.value, fn_in.arg,
                              ZeroChannels(fn_in.rfi_filename.lines, fn_in.n))

-----------------------------------------------------------------------------
(* select_channels (claim C14) *)

\* C14: select_channels returns exactly the entries whose frequency lies
\* strictly between the two bounds, in their order, each frequency with its
\* channel number; an entry on a bound is dropped.
C14_SelectStrictlyBetween ==
    (fn_pc # "call" /\ fn_in.start_freq.numeric /\ fn_in.end_freq.numeric) =>
        /\ fn_pc = "returned"
        /\ Len(fn_out.value.freqs) = Len(fn_out.value.channels)
        /\ {fn_out.value.channels[j] : j \in 1..Len(fn_out.value.channels)} =
              {fn_in.channels[k] : k \in {k \in 1..Len(fn_in.channels) :
                  /\ fn_in.start_freq.n < fn_in.freqs[k]
                  /\ fn_in.freqs[k] < fn_in.end_freq.n}}
        /\ \A j \in 1..Len(fn_out.value.channels) :
              fn_out.value.freqs[j] = ChannelFreq(fn_out.value.channels[j])
        /\ \A i, j \in 1..Len(fn_out.value.channels) :
              i < j => fn_out.value.channels[i] < fn_out.value.channels[j]

\* C14 witness: one entry lies on the lower bound, one on the upper bound and
\* one between them; only the one between is returned
C14_Witness ==
    /\ fn_pc = "returned"
    /\ "start_freq" \in DOMAIN fn_in
    /\ fn_in.start_freq.numeric /\ fn_in.end_freq.numeric
    /\ fn_in.start_freq.n \in {fn_in.freqs[k] : k \in 1..Len(fn_in.freqs)}
    /\ fn_in.end_freq.n \in {fn_in.freqs[k] : k \in 1..Len(fn_in.freqs)}
    /\ Len(fn_out.value.channels) = 1
    /\ Len(fn_in.channels) >= 3

-----------------------------------------------------------------------------
(* interp_timestamps (claims C15, C16) *)

\* C15: for every number of target timestamps, larger than, equal to or
\* smaller than the number of original ones, interp_timestamps returns an
\* array of shape (T_new, A, 2).
C15_InterpOutputShape ==
    fn_pc # "call" =>
        /\ fn_pc = "returned"
        /\ Len(fn_out.value) = Len(fn_in.new_times)
        /\ \A t \in 1..Len(fn_out.value) :
              /\ Len(fn_out.value[t]) = Len(fn_in.origin_data[1])
              /\ \A a \in 1..Len(fn_out.value[t]) : Len(fn_out.value[t][a]) = 2

\* the row of origin_data taken at time t
OriginalSampleAt(t) ==
    fn_in.origin_data[CHOOSE k \in 1..Len(fn_in.origin_times) : fn_in.origin_times[k] = t]

OriginalTimestamps == {fn_in.origin_times[k] : k \in 1..Len(fn_in.origin_times)}

\* C16: when the first and the last target timestamp are original timestamps,
\* the first and the last output row are the original rows taken at those
\* times, for every antenna and both coordinates.
C16_InterpEndpoints ==
    (/\ fn_pc # "call"
     /\ fn_in.new_times[1] \in OriginalTimestamps
     /\ fn_in.new_times[Len(fn_in.new_times)] \in OriginalTimestamps) =>
        /\ fn_pc = "returned"
        /\ fn_out.value[1] = OriginalSampleAt(fn_in.new_times[1])
        /\ fn_out.value[Len(fn_out.value)] =
              OriginalSampleAt(fn_in.new_times[Len(fn_in.new_times)])

-----------------------------------------------------------------------------
(* _compute_gains and from_gains (claims C17, C18) *)

AllChannels(n) == 0..(n - 1)

\* C17: when num_chunks > 1 does not divide the number of channels,
\* _compute_gains warns and solves once over all channels, and from_gains
\* returns, with the result of that single solve for every scan.
C17_FallBackToOneChunk ==
    (/\ fn_pc # "call" /\ fn_in.num_chunks > 1
     /\ fn_in.nchan % fn_in.num_chunks # 0) =>
        /\ fn_pc = "returned"
        /\ fn_out.logged
        /\ fn_in.op = "_compute_gains" =>
              fn_out.value = <<[solved_on |-> AllChannels(fn_in.nchan)]>>
        /\ fn_in.op = "from_gains" =>
              /\ Len(fn_out.value) = fn_in.nscans
              /\ \A scan \in 1..fn_in.nscans :
                    fn_out.value[scan][1] = [solved_on |-> AllChannels(fn_in.nchan)]

\* C18: when num_chunks > 1 divides nchan, _compute_gains returns num_chunks
\* gain tables in ascending chunk order, chunk c solved on the channels
\* c*nchan/num_chunks up to (c+1)*nchan/num_chunks - 1: equal widths, pairwise
\* disjoint, covering every channel once; with num_chunks = 1 there is one
\* solve on all channels.
C18_ChunksPartitionChannels ==
    (fn_pc # "call" /\ fn_in.op = "_compute_gains") =>
        /\ (fn_in.num_chunks > 1 /\ fn_in.nchan % fn_in.num_chunks = 0) =>
              /\ fn_pc = "returned"
              /\ Len(fn_out.value) = fn_in.num_chunks
              /\ \A c \in 1..fn_in.num_chunks :
                    fn_out.value[c].solved_on =
                        {k \in AllChannels(fn_in.nchan) :
                            /\ (c - 1) * fn_in.nchan <= k * fn_in.num_chunks
                            /\ k * fn_in.num_chunks < c * fn_in.nchan}
              /\ \A c \in 1..fn_in.num_chunks :
                    Cardinality(fn_out.value[c].solved_on) * fn_in.num_chunks = fn_in.nchan
              /\ \A c, e \in 1..fn_in.num_chunks :
                    c # e => fn_out.value[c].solved_on \cap fn_out.value[e].solved_on = {}
              /\ UNION {fn_out.value[c].solved_on : c \in 1..fn_in.num_chunks}
                    = AllChannels(fn_in.nchan)
        /\ fn_in.num_chunks = 1 =>
              /\ fn_pc = "returned"
              /\ fn_out.value = <<[solved_on |-> AllChannels(fn_in.nchan)]>>

\* C18 witness: four channels solved in two chunks of two channels
C18_Witness ==
    /\ fn_pc = "returned"
    /\ "num_chunks" \in DOMAIN fn_in
    /\ fn_in.op = "_compute_gains"
    /\ fn_in.nchan = 4 /\ fn_in.num_chunks = 2
    /\ fn_out.value = <<[solved_on |-> {0, 1}], [solved_on |-> {2, 3}]>>

-----------------------------------------------------------------------------
(* _time_avg_amp (claim C19) *)

\* the r-th smallest sample of col
OrderStatistic(col, r) ==
    CHOOSE x \in {col[t] : t \in 1..Len(col)} :
        /\ Cardinality({t \in 1..Len(col) : FLt(col[t], x)}) < r
        /\ Cardinality({t \in 1..Len(col) : FLe(col[t], x)}) >= r

\* the sum of the samples 1..n of col
RECURSIVE SumUpTo(_, _)
SumUpTo(col, n) == IF n = 0 THEN Zero ELSE FAdd(SumUpTo(col, n - 1), col[n])

\* the reduction of one antenna's samples that the option asks for
ExpectedReduction(col, time_avg) ==
    IF time_avg = "median"
    THEN IF Len(col) % 2 = 1 THEN OrderStatistic(col, (Len(col) + 1) \div 2)
         ELSE FDiv(FAdd(OrderStatistic(col, Len(col) \div 2),
                        OrderStatistic(col, (Len(col) \div 2) + 1)), Fin(2, 1))
    ELSE IF time_avg = "mean" THEN FDiv(SumUpTo(col, Len(col)), Fin(Len(col), 1))
    ELSE col[1]

\* C19: _time_avg_amp returns one value per antenna: the first sample for
\* None, the median over time for "median", the arithmetic mean for "mean",
\* and the first sample with a warning for any other option; the amplitudes
\* and the weights of a scan are reduced by the same rule.
C19_TimeReductionPerAntenna ==
    fn_pc = "returned" =>
        /\ Len(fn_out.value.amp) = Len(fn_in.amp[1])
        /\ Len(fn_out.value.weights) = Len(fn_in.weights[1])
        /\ \A a \in 1..Len(fn_in.amp[1]) :
              /\ fn_out.value.amp[a] =
                    ExpectedReduction([t \in 1..Len(fn_in.amp) |-> fn_in.amp[t][a]],
                                      fn_in.time_avg)
              /\ fn_out.value.weights[a] =
                    ExpectedReduction([t \in 1..Len(fn_in.weights) |-> fn_in.weights[t][a]],
                                      fn_in.time_avg)
        /\ fn_out.logged <=> fn_in.time_avg \notin {"None", "median", "mean"}

\* C19 witness: the median of the two samples 1 and 4 of an antenna is 5/2,
\* which is neither sample
C19_Witness ==
    /\ fn_pc = "returned"
    /\ "time_avg" \in DOMAIN fn_in
    /\ fn_in.time_avg = "median"
    /\ Len(fn_in.amp) = 2
    /\ fn_in.amp[1][1] = Fin(1, 1) /\ fn_in.amp[2][1] = Fin(4, 1)
    /\ fn_out.value.amp[1] = Fin(5, 2)

-----------------------------------------------------------------------------
(* SolveForOffsets.__init__ (claim C20) *)

ZeroOrInfinite(x) == x = Zero \/ x = PInf \/ x = NInf

FinitePositive(x) == IsFinite(x) /\ FGt(x, Zero)

\* C20: constructing SolveForOffsets with a frequency that is zero or infinite
\* raises ValueError; with finite positive frequencies it succeeds.
C20_ZeroOrInfiniteFrequencyRaises ==
    fn_pc # "call" =>
        /\ (\E c \in 1..Len(fn_in.frequency) : ZeroOrInfinite(fn_in.frequency[c])) =>
              (fn_pc = "raised" /\ fn_out.error = "ValueError")
        /\ (\A c \in 1..Len(fn_in.frequency) : FinitePositive(fn_in.frequency[c])) =>
              fn_pc = "returned"

-----------------------------------------------------------------------------
(* main (claim C21) *)

Terminated == cli_pc \in {"done", "failed", "returned"}

\* C21: main ends with exit status 0 after a compute run that succeeded, and
\* with a non-zero exit status after compute without --msdir, after
\* --apply_mask without --rfi_file, and after a command other than compute.
C21_ExitStatus ==
    Terminated =>
        /\ cli_pc = "done" => ExitStatus(cli_pc) = 0
        /\ (cli.command = "compute" /\ cli.args.msdir = "None") => ExitStatus(cli_pc) # 0
        /\ (/\ cli.command = "compute" /\ cli.args.msdir # "None"
            /\ cli.args.numbers_parse
            /\ cli.args.apply_mask /\ ~cli.args.rfi_file) => ExitStatus(cli_pc) # 0
        /\ cli.command # "compute" => ExitStatus(cli_pc) # 0

-----------------------------------------------------------------------------
(* from_gains weights (claim C24) *)

\* C24: with num_chunks > 1, the weight from_gains returns for chunk c of
\* scan s is computed from the weights of the gain table of chunk c of scan
\* s, the table its gain amplitude comes from, and not of another chunk.
C24_WeightsOfOwnChunk ==
    (fn_pc = "returned" /\ fn_in.op = "from_gains" /\ fn_in.num_chunks > 1) =>
        \A scan \in 1..fn_in.nscans : \A chunk \in 1..fn_in.num_chunks :
            fn_out.weights[scan][chunk] =
                [scan |-> scan, table |-> fn_out.value[scan][chunk]]

-----------------------------------------------------------------------------
(* from_vis (claim C25) *)

HighestFrequency(frequency) ==
    CHOOSE f \in {frequency[k] : k \in 1..Len(frequency)} :
        \A k \in 1..Len(frequency) : frequency[k] <= f

\* C25: from_vis returns as the frequency the highest retained channel
\* frequency of the first scan, whatever the order of the channels and
\* whatever the later scans hold; with an empty scan list it returns 0.0.
C25_HighestFrequencyOfFirstScan ==
    /\ (fn_pc # "call" /\ Len(fn_in.vis_list) > 0 /\ Len(fn_in.vis_list[1]) > 0) =>
          /\ fn_pc = "returned"
          /\ fn_out.value = HighestFrequency(fn_in.vis_list[1])
    /\ (fn_pc # "call" /\ Len(fn_in.vis_list) = 0) =>
          /\ fn_pc = "returned"
          /\ fn_out.value = 0

-----------------------------------------------------------------------------
(* fit_to_gains and fit_to_visibilities (claims C26, C27, C30) *)

LastCall == fn_out.calls[Len(fn_out.calls)]

PolOffsets(row, i) == IF i = 1 THEN row.azel_offset_pol1 ELSE row.azel_offset_pol2

PolCrossEl(row, i) == IF i = 1 THEN row.cross_el_pol1 ELSE row.cross_el_pol2

\* C26: in the table fit_to_gains returns, row j holds the fitted parameters
\* of antenna j, with the cross-elevation offset computed with the pointing
\* elevation of antenna j; a valid fit of antenna j changes no other row.
C26_RowOfAntenna ==
    (fn_pc = "returned" /\ fn_out.calls = <<"fit_to_gains">>) =>
        \A i \in 1..2 : \A j \in 1..fn_in.nants :
            IF fn_in.fit_to_gains[i][j]
            THEN /\ PolOffsets(fn_out.returned[j], i) =
                        AzElOffset(FittedCentre("fit_to_gains", i, j))
                 /\ PolCrossEl(fn_out.returned[j], i) =
                        FMul(AzElOffset(FittedCentre("fit_to_gains", i, j))[1],
                             Cos(Radians(PointingEl(j))))
            ELSE /\ PolOffsets(fn_out.returned[j], i) = <<Zero, Zero>>
                 /\ PolCrossEl(fn_out.returned[j], i) = Zero

\* C27: in the table fit_to_visibilities or fit_to_gains returns, an antenna
\* whose fit is invalid is reported with NaN offsets, so that it cannot be
\* taken for a valid offset of exactly zero.
C27_InvalidFitIsNaN ==
    fn_pc = "returned" =>
        \A i \in 1..2 : \A j \in 1..fn_in.nants :
            ~fn_in[LastCall][i][j] =>
                /\ PolOffsets(fn_out.returned[j], i) = <<NaN, NaN>>
                /\ PolCrossEl(fn_out.returned[j], i) = NaN

\* the table a new object returns from its first call of method
FreshReturn(inst, method) ==
    StackTables(IF method = "fit_to_gains"
                THEN GainsLoop(ZeroTables(inst.nants), inst, 2 * inst.nants)
                ELSE FitToVisibilitiesTables(ZeroTables(inst.nants), inst))

\* C30: after any sequence of fit_to_visibilities and fit_to_gains calls on
\* one object, the table a call returns is the table a new object would
\* return from that call: nothing an earlier call (or the abandoned first
\* attempt of fit_to_visibilities) has stored survives in a row whose fit is
\* invalid.
C30_CallsAreIndependent ==
    fn_pc = "returned" => fn_out.returned = FreshReturn(fn_in, LastCall)

-----------------------------------------------------------------------------
(* workflow.clean_vis_data (claim C28) *)

\* C28: with start_freq = None and end_freq = None, clean_vis_data selects
\* no frequencies: every channel the optional RFI mask leaves, the first and
\* the last included, enters the frequency average and is returned.
C28_NoneSelectsNothing ==
    (fn_pc # "call" /\ ~fn_in.start_freq.given /\ ~fn_in.end_freq.given) =>
        /\ fn_pc = "returned"
        /\ fn_out.value.averaged = FilteredFreq(fn_in)
        /\ fn_out.value.selected_freq = FilteredFreq(fn_in)

-----------------------------------------------------------------------------
(* channel bookkeeping (claim C29) *)

\* C29: after any sequence of apply_rfi_mask and select_channels calls that
\* starts from the full frequency list F with channels 0..N-1, freqs and
\* channels have equal lengths, channels is strictly increasing, and
\* freqs[k] = F[channels[k]] for every k (so the channel range handed to the
\* reader holds the retained frequencies and no masked one is kept).
C29_ChannelsIndexFrequencies ==
    fn_pc = "ready" =>
        /\ Len(fn_out.freqs) = Len(fn_out.channels)
        /\ \A k \in 1..(Len(fn_out.channels) - 1) : fn_out.channels[k] < fn_out.channels[k + 1]
        /\ \A k \in 1..Len(fn_out.channels) :
              /\ fn_out.channels[k] \in 0..(fn_in.n - 1)
              /\ fn_out.freqs[k] = Freqs(fn_in.n)[fn_out.channels[k] + 1]

=============================================================================
